---------------------------- MODULE Spec2Model ----------------------------
(***************************************************************************)
(* Task store and reconciliation engine of the Shrimp task manager:        *)
(* models/taskModel.ts (src/unnamed/part_011) and the tool handlers that   *)
(* call it (tools/task/*.ts).  The snapshot file tasks.json is the         *)
(* variable tasks; every handler is translated from its source.            *)
(***************************************************************************)
EXTENDS Integers, Sequences, FiniteSets, TLC

VARIABLES
  tasks,      \* content of tasks.json: the ordered task collection
  archives,   \* memory directory: file name (timestamp) -> archived tasks
  nextId,     \* number of uuids generated so far
  clock,      \* the wall clock read by getLocalDate()
  last,       \* the last handler call that returned: name, arguments, result
  everDone,   \* ids that have been stored with status completed
  pc,         \* per request: position inside its handler (concurrent runs)
  req,        \* per request: the call being served
  loc,        \* per request: the handler's local variables
  calls,      \* number of calls served so far
  git,        \* whether the data directory holds a git repository (.git)
  present     \* whether the data directory holds tasks.json

vars == <<tasks, archives, nextId, clock, last, everDone, pc, req, loc, calls,
          git, present>>

----------------------------------------------------------------------------
(* Bounds of the model                                                     *)

MaxIds == 4      \* uuids that may be generated in one behaviour
MaxClock == 2    \* clock readings 1..MaxClock
MaxBatch == 2    \* drafts in one split_tasks call
MaxCalls == 2    \* calls served in one behaviour

----------------------------------------------------------------------------
(* Values                                                                  *)

Undef == "<undefined>"      \* an absent optional string property
NoDate == 0                 \* an absent Date property

PENDING == "pending"
IN_PROGRESS == "in_progress"
COMPLETED == "completed"
BLOCKED == "blocked"

\* uuidv4(): the n-th identifier generated
UuidTable == <<"u1", "u2", "u3", "u4", "u5", "u6", "u7", "u8">>
uuidv4(n) == UuidTable[n]

\* a string of uuid format that names no task
GhostUuid == "u0"

\* /^[0-9a-f]{8}-...-[0-9a-f]{12}$/i
IsUuidFormat(s) == s = GhostUuid \/ \E n \in 1..Len(UuidTable) : UuidTable[n] = s

Names == {"A", "B"}
GhostName == "ghost"

\* An optional array property: <<>> when absent, <<array>> when present
None == <<>>
Some(x) == <<x>>
IsSome(o) == Len(o) = 1
Get(o) == o[1]

F1 == [path |-> "a.ts", type |-> "TO_MODIFY", description |-> "d", lineStart |-> 1, lineEnd |-> 2]
F2 == [path |-> "b.ts", type |-> "REFERENCE", description |-> "d", lineStart |-> 0, lineEnd |-> 0]
\* a file whose lines are given in the wrong order, and one with lineStart alone
F3 == [path |-> "c.ts", type |-> "CREATE", description |-> "d", lineStart |-> 2, lineEnd |-> 1]
F4 == [path |-> "d.ts", type |-> "OTHER", description |-> "d", lineStart |-> 1, lineEnd |-> 0]


Range(s) == {s[i] : i \in 1..Len(s)}

\* tasks.findIndex((task) => task.id === taskId); 0 stands for -1
RECURSIVE FindFrom(_, _, _)
FindFrom(ts, id, i) ==
  IF i > Len(ts) THEN 0
  ELSE IF ts[i].id = id THEN i
  ELSE FindFrom(ts, id, i + 1)

findIndex(ts, id) == FindFrom(ts, id, 1)

Remove(s, i) == [j \in 1..(Len(s) - 1) |-> IF j < i THEN s[j] ELSE s[j + 1]]

Ids(ts) == {ts[i].id : i \in 1..Len(ts)}

----------------------------------------------------------------------------
(* batchCreateOrUpdateTasks                                                *)

\* taskNameToIdMap.set(task.name, task.id) for every task of ts, in order
RECURSIVE SetAll(_, _, _)
SetAll(map, ts, i) ==
  IF i > Len(ts) THEN map
  ELSE SetAll([n \in (DOMAIN map) \cup {ts[i].name} |->
                 IF n = ts[i].name THEN ts[i].id ELSE map[n]], ts, i + 1)

EmptyMap == [n \in {} |-> ""]

MapSet(map, k, v) == [n \in (DOMAIN map) \cup {k} |-> IF n = k THEN v ELSE map[n]]

\* TasksToKeep with the overwrite filter on the status left out
TasksToKeep_KeepAll(existingTasks, taskDataList, updateMode) ==
  IF updateMode \in {"append", "overwrite"} THEN existingTasks
  ELSE IF updateMode = "selective"
    THEN SelectSeq(existingTasks,
           LAMBDA t : t.name \notin {taskDataList[i].name : i \in 1..Len(taskDataList)})
  ELSE <<>>

TasksToKeep(existingTasks, taskDataList, updateMode) ==
  IF updateMode = "append" THEN existingTasks
  ELSE IF updateMode = "overwrite"
    THEN SelectSeq(existingTasks, LAMBDA t : t.status = COMPLETED)
  ELSE IF updateMode = "selective"
    THEN SelectSeq(existingTasks,
           LAMBDA t : t.name \notin {taskDataList[i].name : i \in 1..Len(taskDataList)})
  ELSE <<>>

UpdatedTask(taskToUpdate, taskData, globalAnalysisResult, now) ==
  [taskToUpdate EXCEPT
     !.name = taskData.name,
     !.description = taskData.description,
     !.notes = taskData.notes,
     !.updatedAt = now,
     !.implementationGuide = taskData.implementationGuide,
     !.verificationCriteria = taskData.verificationCriteria,
     !.analysisResult = globalAnalysisResult,
     !.agent = taskData.agent,
     !.relatedFiles = IF IsSome(taskData.relatedFiles)
                      THEN taskData.relatedFiles ELSE @]

NewTask(newTaskId, taskData, globalAnalysisResult, now) ==
  [id |-> newTaskId,
   name |-> taskData.name,
   description |-> taskData.description,
   notes |-> taskData.notes,
   status |-> PENDING,
   dependencies |-> <<>>,
   createdAt |-> now,
   updatedAt |-> now,
   completedAt |-> NoDate,
   summary |-> Undef,
   relatedFiles |-> taskData.relatedFiles,
   implementationGuide |-> taskData.implementationGuide,
   verificationCriteria |-> taskData.verificationCriteria,
   analysisResult |-> globalAnalysisResult,
   agent |-> taskData.agent]

\* the loop over taskDataList that builds newTasks; st = [keep, map, new, used]
RECURSIVE BuildLoop(_, _, _, _, _, _, _, _)
BuildLoop(st, existingTasks, taskDataList, updateMode, ga, idBase, now, i) ==
  IF i > Len(taskDataList) THEN st
  ELSE
    LET taskData == taskDataList[i] IN
    IF updateMode = "selective" /\ taskData.name \in DOMAIN st.map
    THEN
      LET existingTaskId == st.map[taskData.name]
          existingTaskIndex == findIndex(existingTasks, existingTaskId)
      IN IF existingTaskIndex # 0
            /\ existingTasks[existingTaskIndex].status # COMPLETED
         THEN BuildLoop(
                [st EXCEPT
                   !.new = Append(@, UpdatedTask(existingTasks[existingTaskIndex],
                                                 taskData, ga, now)),
                   !.keep = SelectSeq(@, LAMBDA t : t.id # existingTaskId)],
                existingTasks, taskDataList, updateMode, ga, idBase, now, i + 1)
         ELSE BuildLoop(st, existingTasks, taskDataList, updateMode, ga,
                        idBase, now, i + 1)
    ELSE
      LET newTaskId == uuidv4(idBase + st.used + 1) IN
      BuildLoop(
        [st EXCEPT
           !.map = MapSet(@, taskData.name, newTaskId),
           !.new = Append(@, NewTask(newTaskId, taskData, ga, now)),
           !.used = @ + 1],
        existingTasks, taskDataList, updateMode, ga, idBase, now, i + 1)

\* one declared dependency, resolved against the map and the merged collection
RECURSIVE ResolveDeps(_, _, _, _)
ResolveDeps(deps, map, universe, i) ==
  IF i > Len(deps) THEN <<>>
  ELSE
    LET dependencyName == deps[i]
        rest == ResolveDeps(deps, map, universe, i + 1)
    IN IF ~IsUuidFormat(dependencyName)
       THEN IF dependencyName \in DOMAIN map
            THEN <<map[dependencyName]>> \o rest
            ELSE rest
       ELSE IF dependencyName \in universe
            THEN <<dependencyName>> \o rest
            ELSE rest

\* the second loop: newTasks[i] receives the dependencies of taskDataList[i];
\* st = [keep, map, new, used, threw]
RECURSIVE DepLoop(_, _, _)
DepLoop(st, taskDataList, i) ==
  IF i > Len(taskDataList) \/ st.threw THEN st
  ELSE
    LET taskData == taskDataList[i] IN
    IF IsSome(taskData.dependencies) /\ Len(Get(taskData.dependencies)) > 0
    THEN
      IF i > Len(st.new)
      THEN [st EXCEPT !.threw = TRUE]   \* newTask is undefined: TypeError
      ELSE
        LET resolvedDependencies ==
              ResolveDeps(Get(taskData.dependencies), st.map,
                          Ids(st.keep) \cup Ids(st.new), 1)
        IN DepLoop([st EXCEPT !.new[i].dependencies = resolvedDependencies],
                   taskDataList, i + 1)
    ELSE DepLoop(st, taskDataList, i + 1)

\* Result of batchCreateOrUpdateTasks on the collection it read:
\* threw (nothing written), allTasks (written), newTasks (returned), used (uuids)
batchCreateOrUpdateTasks(existingTasks, taskDataList, updateMode, ga, idBase, now) ==
  LET tasksToKeep == TasksToKeep(existingTasks, taskDataList, updateMode)
      map0 == IF updateMode = "selective"
              THEN SetAll(EmptyMap, existingTasks, 1) ELSE EmptyMap
      map1 == SetAll(map0, tasksToKeep, 1)
      built == BuildLoop([keep |-> tasksToKeep, map |-> map1, new |-> <<>>, used |-> 0],
                         existingTasks, taskDataList, updateMode, ga, idBase, now, 1)
      st == DepLoop([keep |-> built.keep, map |-> built.map, new |-> built.new,
                     used |-> built.used, threw |-> FALSE], taskDataList, 1)
  IN [threw |-> st.threw,
      allTasks |-> IF st.threw THEN existingTasks ELSE st.keep \o st.new,
      newTasks |-> IF st.threw THEN <<>> ELSE st.new,
      used |-> st.used]

----------------------------------------------------------------------------
(* Store functions on one task                                             *)

getTaskById(ts, taskId) ==
  LET i == FindFrom(ts, taskId, 1) IN IF i = 0 THEN None ELSE Some(ts[i])

\* { ...tasks[taskIndex], ...updates, updatedAt: getLocalDate() }
Spread(task, updates, now) ==
  [f \in DOMAIN task |->
     IF f = "updatedAt" THEN now
     ELSE IF f \in DOMAIN updates THEN updates[f]
     ELSE task[f]]

AllowedFields == {"summary", "relatedFiles"}

\* updateTask with the check on a Completed task left out
updateTask_Unchecked(ts, taskId, updates, now) ==
  LET taskIndex == findIndex(ts, taskId) IN
  IF taskIndex = 0
  THEN [wrote |-> FALSE, tasks |-> ts, ret |-> None]
  ELSE LET updated == Spread(ts[taskIndex], updates, now) IN
       [wrote |-> TRUE,
        tasks |-> [ts EXCEPT ![taskIndex] = updated],
        ret |-> Some(updated)]

\* updateTask on the collection ts it read: wrote says whether writeTasks ran
updateTask(ts, taskId, updates, now) ==
  LET taskIndex == findIndex(ts, taskId) IN
  IF taskIndex = 0
  THEN [wrote |-> FALSE, tasks |-> ts, ret |-> None]
  ELSE IF ts[taskIndex].status = COMPLETED
          /\ {field \in DOMAIN updates : field \notin AllowedFields} # {}
  THEN [wrote |-> FALSE, tasks |-> ts, ret |-> None]
  ELSE LET updated == Spread(ts[taskIndex], updates, now) IN
       [wrote |-> TRUE,
        tasks |-> [ts EXCEPT ![taskIndex] = updated],
        ret |-> Some(updated)]

StatusUpdates(status, now) ==
  IF status = COMPLETED
  THEN [status |-> status, completedAt |-> now]
  ELSE [status |-> status]

updateTaskStatus(ts, taskId, status, now) ==
  updateTask(ts, taskId, StatusUpdates(status, now), now)

updateTaskSummary(ts, taskId, summary, now) ==
  updateTask(ts, taskId, [summary |-> summary], now)

ContentKeys ==
  {"name", "description", "notes", "relatedFiles", "dependencies",
   "implementationGuide", "verificationCriteria", "agent"}

ArrayKeys == {"relatedFiles", "dependencies"}

\* updates.<key> !== undefined
Defined(updates, k) ==
  IF k \in ArrayKeys THEN IsSome(updates[k]) ELSE updates[k] # Undef

\* the updateObj built by updateTaskContent: only the defined properties
UpdateObj(updates) ==
  [k \in {k \in ContentKeys : Defined(updates, k)} |->
     IF k = "dependencies" THEN Get(updates[k]) ELSE updates[k]]

\* updateTaskContent; t is the task read by getTaskById, ts the collection
\* read afterwards by updateTask
updateTaskContent(t, ts, taskId, updates, now) ==
  IF ~IsSome(t)
  THEN [success |-> FALSE, message |-> "Task not found", wrote |-> FALSE,
        tasks |-> ts, task |-> None]
  ELSE IF Get(t).status = COMPLETED
  THEN [success |-> FALSE, message |-> "Cannot update completed task",
        wrote |-> FALSE, tasks |-> ts, task |-> None]
  ELSE IF DOMAIN UpdateObj(updates) = {}
  THEN [success |-> TRUE, message |-> "No content provided to update",
        wrote |-> FALSE, tasks |-> ts, task |-> t]
  ELSE LET r == updateTask(ts, taskId, UpdateObj(updates), now) IN
       IF ~IsSome(r.ret)
       THEN [success |-> FALSE, message |-> "Error updating task",
             wrote |-> FALSE, tasks |-> ts, task |-> None]
       ELSE [success |-> TRUE, message |-> "Task content updated successfully",
             wrote |-> TRUE, tasks |-> r.tasks, task |-> r.ret]

\* updateTaskRelatedFiles; t is the task getTaskById returned
updateTaskRelatedFiles(t, ts, taskId, relatedFiles, now) ==
  IF ~IsSome(t)
  THEN [success |-> FALSE, message |-> "Task not found", wrote |-> FALSE,
        tasks |-> ts, task |-> None]
  ELSE IF Get(t).status = COMPLETED
  THEN [success |-> FALSE, message |-> "Cannot update completed task",
        wrote |-> FALSE, tasks |-> ts, task |-> None]
  ELSE LET r == updateTask(ts, taskId, [relatedFiles |-> relatedFiles], now) IN
       IF ~IsSome(r.ret)
       THEN [success |-> FALSE, message |-> "Error updating task related files",
             wrote |-> FALSE, tasks |-> ts, task |-> None]
       ELSE [success |-> TRUE,
             message |-> "Successfully updated task related files",
             wrote |-> TRUE, tasks |-> r.tasks, task |-> r.ret]

\* BlockedBy with a dependency on a task that no longer exists let through
RECURSIVE BlockedBy_KnownOnly(_, _, _)
BlockedBy_KnownOnly(deps, allTasks, i) ==
  IF i > Len(deps) THEN <<>>
  ELSE LET d == findIndex(allTasks, deps[i])
           rest == BlockedBy_KnownOnly(deps, allTasks, i + 1)
       IN IF d # 0 /\ allTasks[d].status # COMPLETED
          THEN <<deps[i]>> \o rest
          ELSE rest

\* the blockedBy list of canExecuteTask
RECURSIVE BlockedBy(_, _, _)
BlockedBy(deps, allTasks, i) ==
  IF i > Len(deps) THEN <<>>
  ELSE LET d == findIndex(allTasks, deps[i])
           rest == BlockedBy(deps, allTasks, i + 1)
       IN IF d = 0 \/ allTasks[d].status # COMPLETED
          THEN <<deps[i]>> \o rest
          ELSE rest

\* canExecuteTask with every dependency counted as blocking
canExecuteTask_AllBlocking(t, allTasks) ==
  IF ~IsSome(t) THEN [canExecute |-> FALSE, blockedBy |-> None]
  ELSE IF Get(t).status = COMPLETED THEN [canExecute |-> FALSE, blockedBy |-> None]
  ELSE IF Len(Get(t).dependencies) = 0 THEN [canExecute |-> TRUE, blockedBy |-> None]
  ELSE [canExecute |-> FALSE, blockedBy |-> Some(Get(t).dependencies)]

\* canExecuteTask; t is the task read by getTaskById, allTasks the collection
\* read afterwards by readTasks
canExecuteTask(t, allTasks) ==
  IF ~IsSome(t) THEN [canExecute |-> FALSE, blockedBy |-> None]
  ELSE IF Get(t).status = COMPLETED THEN [canExecute |-> FALSE, blockedBy |-> None]
  ELSE IF Len(Get(t).dependencies) = 0 THEN [canExecute |-> TRUE, blockedBy |-> None]
  ELSE LET blockedBy == BlockedBy(Get(t).dependencies, allTasks, 1) IN
       [canExecute |-> Len(blockedBy) = 0,
        blockedBy |-> IF Len(blockedBy) > 0 THEN Some(blockedBy) ELSE None]

\* deleteTask with the check for dependent tasks left out
deleteTask_Unprotected(ts, taskId) ==
  LET taskIndex == findIndex(ts, taskId) IN
  IF taskIndex = 0
  THEN [success |-> FALSE, message |-> "Task not found", dependents |-> <<>>,
        wrote |-> FALSE, tasks |-> ts]
  ELSE IF ts[taskIndex].status = COMPLETED
  THEN [success |-> FALSE, message |-> "Cannot delete completed task",
        dependents |-> <<>>, wrote |-> FALSE, tasks |-> ts]
  ELSE [success |-> TRUE, message |-> "Task deleted successfully",
        dependents |-> <<>>, wrote |-> TRUE, tasks |-> Remove(ts, taskIndex)]

\* deleteTask on the collection it read
deleteTask(ts, taskId) ==
  LET taskIndex == findIndex(ts, taskId) IN
  IF taskIndex = 0
  THEN [success |-> FALSE, message |-> "Task not found", dependents |-> <<>>,
        wrote |-> FALSE, tasks |-> ts]
  ELSE IF ts[taskIndex].status = COMPLETED
  THEN [success |-> FALSE, message |-> "Cannot delete completed task",
        dependents |-> <<>>, wrote |-> FALSE, tasks |-> ts]
  ELSE
    LET allTasks == Remove(ts, taskIndex)
        dependentTasks ==
          SelectSeq(allTasks, LAMBDA t : taskId \in Range(t.dependencies))
    IN IF Len(dependentTasks) > 0
       THEN [success |-> FALSE,
             message |-> "Cannot delete this task because the following tasks depend on it",
             dependents |-> [i \in 1..Len(dependentTasks) |-> dependentTasks[i].name],
             wrote |-> FALSE, tasks |-> ts]
       ELSE [success |-> TRUE, message |-> "Task deleted successfully",
             dependents |-> <<>>, wrote |-> TRUE, tasks |-> allTasks]

\* tasks_memory_<timestamp>.json: the file name is the clock reading
BackupFileName(now) == now

NoArchives == [f \in {} |-> <<>>]

WriteFile(dir, name, content) ==
  [f \in (DOMAIN dir) \cup {name} |-> IF f = name THEN content ELSE dir[f]]

\* clearAllTasks with the backup taken of all the tasks
clearAllTasks_BackupAll(allTasks, dir, now) ==
  IF Len(allTasks) = 0
  THEN [success |-> TRUE, message |-> "No tasks to clear", backupFile |-> 0,
        wrote |-> FALSE, tasks |-> allTasks, archives |-> dir,
        removed |-> 0, backedUp |-> 0]
  ELSE
    [success |-> TRUE, message |-> "Successfully cleared all tasks",
     backupFile |-> BackupFileName(now), wrote |-> TRUE, tasks |-> <<>>,
     archives |-> WriteFile(dir, BackupFileName(now), allTasks),
     removed |-> Len(allTasks), backedUp |-> Len(allTasks)]

\* clearAllTasks on the collection it read
clearAllTasks(allTasks, dir, now) ==
  IF Len(allTasks) = 0
  THEN [success |-> TRUE, message |-> "No tasks to clear", backupFile |-> 0,
        wrote |-> FALSE, tasks |-> allTasks, archives |-> dir,
        removed |-> 0, backedUp |-> 0]
  ELSE
    LET completedTasks == SelectSeq(allTasks, LAMBDA t : t.status = COMPLETED) IN
    [success |-> TRUE, message |-> "Successfully cleared all tasks",
     backupFile |-> BackupFileName(now), wrote |-> TRUE, tasks |-> <<>>,
     archives |-> WriteFile(dir, BackupFileName(now), completedTasks),
     removed |-> Len(allTasks), backedUp |-> Len(completedTasks)]

----------------------------------------------------------------------------
(* Inputs                                                                  *)

\* a draft of tasksRaw after tasksSchema and the conversion in splitTasksRaw
FullDraft(n, deps) ==
  [name |-> n, description |-> "d1", notes |-> "n1", dependencies |-> deps,
   relatedFiles |-> Some(<<F1>>), implementationGuide |-> "g1",
   verificationCriteria |-> "v1", agent |-> "ag1"]

BareDraft(n, deps, files) ==
  [name |-> n, description |-> "d2", notes |-> Undef, dependencies |-> deps,
   relatedFiles |-> files, implementationGuide |-> "g2",
   verificationCriteria |-> Undef, agent |-> Undef]

\* what a dependency entry of a draft may say
Refs(ts) == Names \cup {GhostName, GhostUuid} \cup Ids(ts)

Other(n) == CHOOSE m \in Names : m # n

\* single drafts: every optional property present, absent or empty, and a
\* dependency given by name, by id, or naming nothing
Drafts(ts) ==
  {FullDraft("A", None), FullDraft("B", Some(<<"A">>)),
   BareDraft("A", Some(<<>>), None), BareDraft("B", None, Some(<<>>))}
  \cup {FullDraft("B", Some(<<r>>)) : r \in {GhostName, GhostUuid} \cup Ids(ts)}
  \cup {FullDraft("B", Some(<<"A", GhostName>>))}
  \cup {FullDraft("A", Some(<<"A">>))}
  \cup {BareDraft("A", None, Some(<<F3>>)), BareDraft("B", None, Some(<<F2, F4>>))}

PairDep(n, byName) == IF byName THEN Some(<<Other(n)>>) ELSE None

\* batches of at most MaxBatch drafts: one draft, two drafts that may name
\* each other, two drafts of one name, a second draft with a dependency on
\* nothing, a chain of three
BatchPool(ts) ==
  {<<d>> : d \in Drafts(ts)}
  \cup {<<FullDraft("A", PairDep("A", x)), FullDraft("B", PairDep("B", y))>> :
          x \in BOOLEAN, y \in BOOLEAN}
  \cup {<<FullDraft("A", None), BareDraft("A", None, None)>>}
  \cup {<<FullDraft("A", None), FullDraft("B", Some(<<GhostUuid>>))>>}
  \cup {<<FullDraft("A", None), FullDraft("B", Some(<<"A">>)),
          FullDraft("C", Some(<<"B">>))>>}

Batches(ts) == {b \in BatchPool(ts) : Len(b) <= MaxBatch}

UpdateModes == {"append", "overwrite", "selective", "clearAllTasks"}

AllIds(ts) == [i \in 1..Len(ts) |-> ts[i].id]

NoUpdates ==
  [name |-> Undef, description |-> Undef, notes |-> Undef, relatedFiles |-> None,
   dependencies |-> None, implementationGuide |-> Undef,
   verificationCriteria |-> Undef, agent |-> Undef]

\* arguments of update_task (the tool passes no agent)
ContentUpdates(ts) ==
  {NoUpdates}
  \cup {[NoUpdates EXCEPT !.name = "B"]}
  \cup {[NoUpdates EXCEPT !.notes = "n3", !.relatedFiles = Some(<<F2>>)]}
  \cup {[NoUpdates EXCEPT !.relatedFiles = Some(<<F1, F3>>)]}
  \cup {[NoUpdates EXCEPT !.relatedFiles = Some(<<F4>>)]}
  \cup {[NoUpdates EXCEPT !.dependencies = Some(<<>>)]}
  \cup {[NoUpdates EXCEPT !.dependencies = Some(<<r>>)] :
          r \in Ids(ts) \cup {GhostUuid}}
  \cup {[NoUpdates EXCEPT !.dependencies = Some(AllIds(ts))]}

TaskIds(ts) == Ids(ts) \cup {GhostUuid}

Summaries == {"s1"}
Scores == {79, 80}

----------------------------------------------------------------------------
(* Tool handlers as functions of the snapshot they read                    *)

\* the duplicate check with the name set never filled
HasDuplicateNames_EmptySet(drafts) ==
  \E i \in 1..Len(drafts) : drafts[i].name \in {}

HasDuplicateNames(drafts) ==
  \E i, j \in 1..Len(drafts) : i < j /\ drafts[i].name = drafts[j].name

\* splitTasksRaw: duplicate-name check, then the mode dispatch
splitTasksRaw(ts, dir, updateMode, drafts, ga, idBase, now) ==
  IF HasDuplicateNames(drafts)
  THEN [rejected |-> TRUE, threw |-> FALSE, tasks |-> ts, archives |-> dir,
        createdTasks |-> <<>>, used |-> 0, backupFile |-> 0]
  ELSE IF updateMode = "clearAllTasks"
  THEN LET c == clearAllTasks(ts, dir, now)
           b == batchCreateOrUpdateTasks(c.tasks, drafts, "append", ga, idBase, now)
       IN [rejected |-> FALSE, threw |-> b.threw, tasks |-> b.allTasks,
           archives |-> c.archives, createdTasks |-> b.newTasks, used |-> b.used,
           backupFile |-> c.backupFile]
  ELSE LET b == batchCreateOrUpdateTasks(ts, drafts, updateMode, ga, idBase, now)
       IN [rejected |-> FALSE, threw |-> b.threw, tasks |-> b.allTasks,
           archives |-> dir, createdTasks |-> b.newTasks, used |-> b.used,
           backupFile |-> 0]

\* executeTask
executeTask(ts, taskId, now) ==
  LET task == getTaskById(ts, taskId)
      executionCheck == canExecuteTask(getTaskById(ts, taskId), ts)
  IN IF ~IsSome(task)
     THEN [outcome |-> "not found", blockedBy |-> None, tasks |-> ts]
     ELSE IF ~executionCheck.canExecute
     THEN [outcome |-> "cannot be executed", blockedBy |-> executionCheck.blockedBy,
           tasks |-> ts]
     ELSE IF Get(task).status = IN_PROGRESS
     THEN [outcome |-> "already in progress", blockedBy |-> None, tasks |-> ts]
     ELSE IF Get(task).status = COMPLETED
     THEN [outcome |-> "already completed", blockedBy |-> None, tasks |-> ts]
     ELSE [outcome |-> "started", blockedBy |-> None,
           tasks |-> updateTaskStatus(ts, taskId, IN_PROGRESS, now).tasks]

MinScore == 80

\* verifyTask with the test of the status left out
verifyTask_AnyStatus(ts, taskId, summary, score, now) ==
  LET task == getTaskById(ts, taskId) IN
  IF ~IsSome(task) THEN [outcome |-> "not found", tasks |-> ts]
  ELSE IF score >= MinScore
  THEN [outcome |-> "completed",
        tasks |-> updateTaskStatus(updateTaskSummary(ts, taskId, summary, now).tasks,
                                   taskId, COMPLETED, now).tasks]
  ELSE [outcome |-> "not completed", tasks |-> ts]

\* verifyTask
verifyTask(ts, taskId, summary, score, now) ==
  LET task == getTaskById(ts, taskId) IN
  IF ~IsSome(task) THEN [outcome |-> "not found", tasks |-> ts]
  ELSE IF Get(task).status # IN_PROGRESS THEN [outcome |-> "status error", tasks |-> ts]
  ELSE IF score >= MinScore
  THEN [outcome |-> "completed",
        tasks |-> updateTaskStatus(updateTaskSummary(ts, taskId, summary, now).tasks,
                                   taskId, COMPLETED, now).tasks]
  ELSE [outcome |-> "not completed", tasks |-> ts]

\* name || description || ... : an absent or empty value is falsy
Truthy(updates, k) ==
  IF k \in ArrayKeys THEN IsSome(updates[k])
  ELSE updates[k] # Undef /\ updates[k] # ""

\* the test of update_task on one file: a line number is absent (0) or positive
InvalidLines(file) ==
  \/ file.lineStart # 0 /\ file.lineEnd = 0
  \/ file.lineStart = 0 /\ file.lineEnd # 0
  \/ file.lineStart # 0 /\ file.lineEnd # 0 /\ file.lineStart > file.lineEnd

\* the update_task tool (updateTaskContent of the tools), which passes no agent
updateTaskContentTool(ts, taskId, updates, now) ==
  IF /\ IsSome(updates.relatedFiles)
     /\ \E n \in 1..Len(Get(updates.relatedFiles)) :
          InvalidLines(Get(updates.relatedFiles)[n])
  THEN [outcome |-> "invalid line numbers", success |-> FALSE, tasks |-> ts]
  ELSE IF \A k \in ContentKeys \ {"agent"} : ~Truthy(updates, k)
  THEN [outcome |-> "empty update", success |-> FALSE, tasks |-> ts]
  ELSE IF ~IsSome(getTaskById(ts, taskId))
  THEN [outcome |-> "not found", success |-> FALSE, tasks |-> ts]
  ELSE LET r == updateTaskContent(getTaskById(ts, taskId), ts, taskId,
                                  [updates EXCEPT !.agent = Undef], now)
       IN [outcome |-> r.message, success |-> r.success, tasks |-> r.tasks]

----------------------------------------------------------------------------
(* States the store is found in: the empty store and the states along two  *)
(* runs of the tools from it                                               *)

FirstBatch == <<FullDraft("A", None), FullDraft("B", Some(<<"A">>))>>

Planned == splitTasksRaw(<<>>, NoArchives, "clearAllTasks", FirstBatch, "ga", 0, 1).tasks
Started == executeTask(Planned, uuidv4(1), 1).tasks
Verified == verifyTask(Started, uuidv4(1), "s1", MinScore, 1).tasks
NextStarted == executeTask(Verified, uuidv4(2), 1).tasks
Redirected ==
  updateTaskContentTool(NextStarted, uuidv4(2),
    [NoUpdates EXCEPT !.dependencies = Some(<<uuidv4(1), GhostUuid>>)], 1).tasks
AllVerified == verifyTask(Redirected, uuidv4(2), "s1", MinScore, 1).tasks
Entangled ==
  updateTaskContentTool(Started, uuidv4(1),
    [NoUpdates EXCEPT !.dependencies = Some(<<uuidv4(2)>>)], 1).tasks
EntangledVerified == verifyTask(Entangled, uuidv4(1), "s1", MinScore, 1).tasks

Seeds ==
  {Planned, Started, Verified, NextStarted, Redirected, AllVerified,
   Entangled, EntangledVerified}

----------------------------------------------------------------------------
(* One call at a time                                                      *)

Procs == {1, 2}

Done(ts) == {ts[i].id : i \in {j \in 1..Len(ts) : ts[j].status = COMPLETED}}

Write(ts) ==
  /\ tasks' = ts
  /\ everDone' = everDone \cup Done(ts)

\* the store after construction, whatever the data directory's repository
InitStore ==
  /\ \/ tasks = <<>> /\ nextId = 0
     \/ tasks \in Seeds /\ nextId = Len(FirstBatch)
  /\ archives = NoArchives
  /\ clock = 1
  /\ last = [op |-> "none"]
  /\ everDone = Done(tasks)
  /\ pc = [p \in Procs |-> "idle"]
  /\ req = [p \in Procs |-> [op |-> "none"]]
  /\ loc = [p \in Procs |-> [op |-> "none"]]
  /\ calls = 0

\* the data directory already holds its repository: initGitIfNeeded finds
\* .git and returns, commitTaskChanges swallows its errors, so every write
\* of the snapshot succeeds
Init == InitStore /\ git = TRUE /\ present = TRUE

\* no call is being served and no result is waiting to be returned
Idle == last.op = "none" /\ \A p \in Procs : pc[p] = "idle"

\* a new call may be received
Ready == Idle /\ calls < MaxCalls

\* the result of the last call is returned to the caller
Return ==
  /\ last.op # "none"
  /\ last' = [op |-> "none"]
  /\ UNCHANGED <<tasks, archives, nextId, clock, everDone, pc, req, loc, calls,
               git, present>>

Tick ==
  /\ Idle
  /\ clock < MaxClock
  /\ clock' = clock + 1
  /\ UNCHANGED <<tasks, archives, nextId, last, everDone, pc, req, loc, calls,
               git, present>>

Served == calls' = calls + 1 /\ UNCHANGED <<clock, pc, req, loc, git, present>>

SplitTasksRaw(updateMode, drafts, ga) ==
  LET r == splitTasksRaw(tasks, archives, updateMode, drafts, ga, nextId, clock) IN
  /\ Ready
  /\ nextId + r.used <= MaxIds
  /\ Write(r.tasks)
  /\ archives' = r.archives
  /\ nextId' = nextId + r.used
  /\ last' = [op |-> "split_tasks", updateMode |-> updateMode, drafts |-> drafts,
              ga |-> ga, pre |-> tasks, preArchives |-> archives,
              rejected |-> r.rejected, threw |-> r.threw,
              createdTasks |-> r.createdTasks]
  /\ Served

ExecuteTask(taskId) ==
  LET r == executeTask(tasks, taskId, clock) IN
  /\ Ready
  /\ Write(r.tasks)
  /\ last' = [op |-> "execute_task", taskId |-> taskId, pre |-> tasks,
              post |-> r.tasks, outcome |-> r.outcome, blockedBy |-> r.blockedBy]
  /\ UNCHANGED <<archives, nextId>>
  /\ Served

VerifyTask(taskId, summary, score) ==
  LET r == verifyTask(tasks, taskId, summary, score, clock) IN
  /\ Ready
  /\ Write(r.tasks)
  /\ last' = [op |-> "verify_task", taskId |-> taskId, summary |-> summary,
              score |-> score, pre |-> tasks, outcome |-> r.outcome]
  /\ UNCHANGED <<archives, nextId>>
  /\ Served

UpdateTaskContentTool(taskId, updates) ==
  LET r == updateTaskContentTool(tasks, taskId, updates, clock) IN
  /\ Ready
  /\ Write(r.tasks)
  /\ last' = [op |-> "update_task", taskId |-> taskId, updates |-> updates,
              pre |-> tasks, outcome |-> r.outcome, success |-> r.success]
  /\ UNCHANGED <<archives, nextId>>
  /\ Served

\* delete_task: deleteTask of the store
DeleteTask(taskId) ==
  LET r == deleteTask(tasks, taskId) IN
  /\ Ready
  /\ Write(r.tasks)
  /\ last' = [op |-> "delete_task", taskId |-> taskId, pre |-> tasks,
              success |-> r.success, message |-> r.message,
              dependents |-> r.dependents]
  /\ UNCHANGED <<archives, nextId>>
  /\ Served

\* clear_all_tasks: clearAllTasks of the store
ClearAllTasks ==
  LET r == clearAllTasks(tasks, archives, clock) IN
  /\ Ready
  /\ Write(r.tasks)
  /\ archives' = r.archives
  /\ last' = [op |-> "clear_all_tasks", pre |-> tasks, preArchives |-> archives,
              success |-> r.success, message |-> r.message,
              backupFile |-> r.backupFile, removed |-> r.removed,
              backedUp |-> r.backedUp]
  /\ UNCHANGED nextId
  /\ Served

\* canExecuteTask, asked on its own
CanExecuteTask(taskId) ==
  LET r == canExecuteTask(getTaskById(tasks, taskId), tasks) IN
  /\ Ready
  /\ last' = [op |-> "canExecuteTask", taskId |-> taskId, pre |-> tasks,
              canExecute |-> r.canExecute, blockedBy |-> r.blockedBy]
  /\ UNCHANGED <<tasks, archives, nextId, everDone>>
  /\ Served

GlobalAnalysis == {"ga"}

Next ==
  \/ Tick
  \/ Return
  \/ Ready /\ \E m \in UpdateModes, ds \in Batches(tasks), ga \in GlobalAnalysis :
                SplitTasksRaw(m, ds, ga)
  \/ Ready /\ \E id \in TaskIds(tasks) : ExecuteTask(id)
  \/ Ready /\ \E id \in TaskIds(tasks), s \in Summaries, sc \in Scores :
                VerifyTask(id, s, sc)
  \/ Ready /\ \E id \in TaskIds(tasks), u \in ContentUpdates(tasks) :
                UpdateTaskContentTool(id, u)
  \/ Ready /\ \E id \in TaskIds(tasks) : DeleteTask(id)
  \/ ClearAllTasks
  \/ Ready /\ \E id \in TaskIds(tasks) : CanExecuteTask(id)

Spec == Init /\ [][Next]_vars

----------------------------------------------------------------------------
(* The store functions called directly, as the tools and the web server    *)
(* call them                                                               *)

\* the updates a caller of updateTask may pass
StoreUpdates(now) ==
  <<[status |-> PENDING],
    [status |-> IN_PROGRESS],
    [status |-> COMPLETED, completedAt |-> now],
    [completedAt |-> NoDate],
    [summary |-> "s2"],
    [relatedFiles |-> Some(<<F2>>)],
    [summary |-> "s2", relatedFiles |-> Some(<<F2>>)],
    [summary |-> "s2", name |-> "C"],
    [dependencies |-> <<>>],
    [name |-> "C"]>>

Statuses == {PENDING, IN_PROGRESS, COMPLETED, BLOCKED}

\* arguments of updateTaskContent of the store
StoreContentUpdates ==
  {NoUpdates,
   [NoUpdates EXCEPT !.relatedFiles = Some(<<F2>>)],
   [NoUpdates EXCEPT !.agent = "ag2"],
   [NoUpdates EXCEPT !.name = "C", !.dependencies = Some(<<>>)]}

UpdateTask(taskId, k) ==
  LET updates == StoreUpdates(clock)[k]
      r == updateTask(tasks, taskId, updates, clock)
  IN /\ Ready
     /\ Write(r.tasks)
     /\ last' = [op |-> "updateTask", taskId |-> taskId, named |-> DOMAIN updates,
                 values |-> updates,
                 pre |-> tasks, rejected |-> ~IsSome(r.ret)]
     /\ UNCHANGED <<archives, nextId>>
     /\ Served

UpdateTaskStatus(taskId, status) ==
  LET r == updateTaskStatus(tasks, taskId, status, clock) IN
  /\ Ready
  /\ Write(r.tasks)
  /\ last' = [op |-> "updateTaskStatus", taskId |-> taskId,
              named |-> DOMAIN StatusUpdates(status, clock),
              values |-> StatusUpdates(status, clock),
              pre |-> tasks, rejected |-> ~IsSome(r.ret)]
  /\ UNCHANGED <<archives, nextId>>
  /\ Served

UpdateTaskSummary(taskId, summary) ==
  LET r == updateTaskSummary(tasks, taskId, summary, clock) IN
  /\ Ready
  /\ Write(r.tasks)
  /\ last' = [op |-> "updateTaskSummary", taskId |-> taskId, named |-> {"summary"},
              values |-> [summary |-> summary],
              pre |-> tasks, rejected |-> ~IsSome(r.ret)]
  /\ UNCHANGED <<archives, nextId>>
  /\ Served

UpdateTaskContent(taskId, updates) ==
  LET r == updateTaskContent(getTaskById(tasks, taskId), tasks, taskId, updates, clock) IN
  /\ Ready
  /\ Write(r.tasks)
  /\ last' = [op |-> "updateTaskContent", taskId |-> taskId,
              named |-> DOMAIN UpdateObj(updates),
              values |-> UpdateObj(updates),
              pre |-> tasks, rejected |-> ~r.success]
  /\ UNCHANGED <<archives, nextId>>
  /\ Served

RelatedFilesArgs == {Some(<<F2>>), Some(<<>>)}

UpdateTaskRelatedFiles(taskId, relatedFiles) ==
  LET r == updateTaskRelatedFiles(getTaskById(tasks, taskId), tasks, taskId,
                                  relatedFiles, clock) IN
  /\ Ready
  /\ Write(r.tasks)
  /\ last' = [op |-> "updateTaskRelatedFiles", taskId |-> taskId,
              named |-> {"relatedFiles"},
              values |-> [relatedFiles |-> relatedFiles],
              pre |-> tasks, rejected |-> ~r.success]
  /\ UNCHANGED <<archives, nextId>>
  /\ Served

NextStore ==
  \/ Tick
  \/ Return
  \/ Ready /\ \E id \in TaskIds(tasks), k \in 1..Len(StoreUpdates(clock)) :
                UpdateTask(id, k)
  \/ Ready /\ \E id \in TaskIds(tasks), st \in Statuses : UpdateTaskStatus(id, st)
  \/ Ready /\ \E id \in TaskIds(tasks), s \in Summaries : UpdateTaskSummary(id, s)
  \/ Ready /\ \E id \in TaskIds(tasks), u \in StoreContentUpdates :
                UpdateTaskContent(id, u)
  \/ Ready /\ \E id \in TaskIds(tasks), fs \in RelatedFilesArgs :
                UpdateTaskRelatedFiles(id, fs)

SpecStore == Init /\ [][NextStore]_vars

----------------------------------------------------------------------------
(* Two requests served at the same time. A handler runs from one await to  *)
(* the next without interruption; at an await (readTasks, writeTasks) the  *)
(* other handler may run. No lock is taken anywhere.                       *)

NoLocals == [task |-> None, snap |-> <<>>]

\* the snapshot before the first of the requests was received
Base(p) == IF \A q \in Procs : pc[q] = "idle" THEN tasks
           ELSE req[CHOOSE q \in Procs : q # p].base

Receive(p, r) ==
  /\ pc[p] = "idle"
  /\ calls < MaxCalls
  /\ calls' = calls + 1
  /\ req' = [req EXCEPT ![p] = r]
  /\ loc' = [loc EXCEPT ![p] = NoLocals]
  /\ pc' = [pc EXCEPT ![p] = r.op]
  /\ UNCHANGED <<tasks, archives, nextId, clock, last, everDone, git, present>>

Goto(p, label, locals) ==
  /\ pc' = [pc EXCEPT ![p] = label]
  /\ loc' = [loc EXCEPT ![p] = locals]
  /\ UNCHANGED <<last, req, calls, clock, archives, nextId, git, present>>

Finish(p, result) ==
  /\ pc' = [pc EXCEPT ![p] = "done"]
  /\ last' = result
  /\ UNCHANGED <<loc, req, calls, clock, archives, nextId, git, present>>

\* the answer of a handler, with the store before and after its last step
Answer(p, outcome, blockedBy) ==
  [op |-> req[p].op, taskId |-> req[p].taskId, pre |-> tasks, post |-> tasks',
   outcome |-> outcome, blockedBy |-> blockedBy]

NoWrite == UNCHANGED <<tasks, everDone>>

\* executeTask after canExecuteTask has answered
ExecDecide(p, task, executionCheck) ==
  IF ~executionCheck.canExecute
  THEN Finish(p, Answer(p, "cannot be executed", executionCheck.blockedBy))
  ELSE IF Get(task).status = IN_PROGRESS
  THEN Finish(p, Answer(p, "already in progress", None))
  ELSE IF Get(task).status = COMPLETED
  THEN Finish(p, Answer(p, "already completed", None))
  ELSE Goto(p, "executeTask:updateTaskStatus", [loc[p] EXCEPT !.task = task])

\* executeTask: const task = await getTaskById(taskId)
ExecGetTask(p) ==
  /\ pc[p] = "execute_task"
  /\ NoWrite
  /\ LET task == getTaskById(tasks, req[p].taskId) IN
     IF ~IsSome(task) THEN Finish(p, Answer(p, "not found", None))
     ELSE Goto(p, "executeTask:canExecuteTask", [loc[p] EXCEPT !.task = task])

\* canExecuteTask: const task = await getTaskById(taskId)
ExecCanGetTask(p) ==
  /\ pc[p] = "executeTask:canExecuteTask"
  /\ NoWrite
  /\ LET t == getTaskById(tasks, req[p].taskId) IN
     IF ~IsSome(t) \/ Get(t).status = COMPLETED \/ Len(Get(t).dependencies) = 0
     THEN ExecDecide(p, loc[p].task, canExecuteTask(t, <<>>))
     ELSE Goto(p, "canExecuteTask:readTasks", [loc[p] EXCEPT !.snap = <<Get(t)>>])

\* canExecuteTask: const allTasks = await readTasks(), and the answer
ExecCanReadTasks(p) ==
  /\ pc[p] = "canExecuteTask:readTasks"
  /\ NoWrite
  /\ ExecDecide(p, loc[p].task, canExecuteTask(Some(loc[p].snap[1]), tasks))

\* updateTask: const tasks = await readTasks(), and the checks before the write
ExecReadTasks(p) ==
  /\ pc[p] = "executeTask:updateTaskStatus"
  /\ NoWrite
  /\ IF updateTaskStatus(tasks, req[p].taskId, IN_PROGRESS, clock).wrote
     THEN Goto(p, "executeTask:writeTasks", [loc[p] EXCEPT !.snap = tasks])
     ELSE Finish(p, Answer(p, "not started", None))

\* updateTask: await writeTasks(tasks)
ExecWriteTasks(p) ==
  /\ pc[p] = "executeTask:writeTasks"
  /\ Write(updateTaskStatus(loc[p].snap, req[p].taskId, IN_PROGRESS, clock).tasks)
  /\ Finish(p, Answer(p, "started", None))

\* verifyTask: const task = await getTaskById(taskId)
VerifyGetTask(p) ==
  /\ pc[p] = "verify_task"
  /\ NoWrite
  /\ LET task == getTaskById(tasks, req[p].taskId) IN
     IF ~IsSome(task) THEN Finish(p, Answer(p, "not found", None))
     ELSE IF Get(task).status # IN_PROGRESS
     THEN Finish(p, Answer(p, "status error", None))
     ELSE IF req[p].score >= MinScore
     THEN Goto(p, "verifyTask:updateTaskSummary", loc[p])
     ELSE Finish(p, Answer(p, "not completed", None))

\* updateTaskSummary: readTasks of updateTask
VerifySummaryRead(p) ==
  /\ pc[p] = "verifyTask:updateTaskSummary"
  /\ NoWrite
  /\ IF updateTaskSummary(tasks, req[p].taskId, req[p].summary, clock).wrote
     THEN Goto(p, "verifyTask:writeSummary", [loc[p] EXCEPT !.snap = tasks])
     ELSE Goto(p, "verifyTask:updateTaskStatus", loc[p])

\* updateTaskSummary: writeTasks of updateTask
VerifySummaryWrite(p) ==
  /\ pc[p] = "verifyTask:writeSummary"
  /\ Write(updateTaskSummary(loc[p].snap, req[p].taskId, req[p].summary, clock).tasks)
  /\ Goto(p, "verifyTask:updateTaskStatus", loc[p])

\* updateTaskStatus(COMPLETED): readTasks of updateTask
VerifyStatusRead(p) ==
  /\ pc[p] = "verifyTask:updateTaskStatus"
  /\ NoWrite
  /\ IF updateTaskStatus(tasks, req[p].taskId, COMPLETED, clock).wrote
     THEN Goto(p, "verifyTask:writeStatus", [loc[p] EXCEPT !.snap = tasks])
     ELSE Finish(p, Answer(p, "completed", None))

\* updateTaskStatus(COMPLETED): writeTasks of updateTask
VerifyStatusWrite(p) ==
  /\ pc[p] = "verifyTask:writeStatus"
  /\ Write(updateTaskStatus(loc[p].snap, req[p].taskId, COMPLETED, clock).tasks)
  /\ Finish(p, Answer(p, "completed", None))

\* the agent is not an argument of update_task
ToolUpdates(p) == [req[p].updates EXCEPT !.agent = Undef]

\* update_task: the empty-update check, then const task = await getTaskById(taskId)
UpdateGetTask(p) ==
  /\ pc[p] = "update_task"
  /\ NoWrite
  /\ IF \A k \in ContentKeys \ {"agent"} : ~Truthy(req[p].updates, k)
     THEN Finish(p, Answer(p, "empty update", None))
     ELSE IF ~IsSome(getTaskById(tasks, req[p].taskId))
     THEN Finish(p, Answer(p, "not found", None))
     ELSE Goto(p, "updateTaskContent:getTaskById", loc[p])

\* updateTaskContent: const task = await getTaskById(taskId), and its checks
UpdateContentGetTask(p) ==
  /\ pc[p] = "updateTaskContent:getTaskById"
  /\ NoWrite
  /\ LET r == updateTaskContent(getTaskById(tasks, req[p].taskId), <<>>,
                                req[p].taskId, NoUpdates, clock)
     IN IF ~r.success THEN Finish(p, Answer(p, r.message, None))
        ELSE IF DOMAIN UpdateObj(ToolUpdates(p)) = {}
        THEN Finish(p, Answer(p, r.message, None))
        ELSE Goto(p, "updateTaskContent:updateTask", loc[p])

\* updateTask: const tasks = await readTasks(), and the checks before the write
UpdateReadTasks(p) ==
  /\ pc[p] = "updateTaskContent:updateTask"
  /\ NoWrite
  /\ IF updateTask(tasks, req[p].taskId, UpdateObj(ToolUpdates(p)), clock).wrote
     THEN Goto(p, "updateTaskContent:writeTasks", [loc[p] EXCEPT !.snap = tasks])
     ELSE Finish(p, Answer(p, "Error updating task", None))

\* updateTask: await writeTasks(tasks)
UpdateWriteTasks(p) ==
  /\ pc[p] = "updateTaskContent:writeTasks"
  /\ Write(updateTask(loc[p].snap, req[p].taskId, UpdateObj(ToolUpdates(p)), clock).tasks)
  /\ Finish(p, Answer(p, "Task content updated successfully", None))

\* arguments of update_task in the concurrent runs
ConcUpdates ==
  {[NoUpdates EXCEPT !.name = "C"],
   [NoUpdates EXCEPT !.dependencies = Some(<<GhostUuid>>)]}

NextConc ==
  \/ \E p \in Procs, id \in Ids(tasks) :
       Receive(p, [op |-> "execute_task", taskId |-> id, base |-> Base(p)])
  \/ \E p \in Procs, id \in Ids(tasks), s \in Summaries :
       Receive(p, [op |-> "verify_task", taskId |-> id, summary |-> s,
                   score |-> MinScore, base |-> Base(p)])
  \/ \E p \in Procs, id \in Ids(tasks), u \in ConcUpdates :
       Receive(p, [op |-> "update_task", taskId |-> id, updates |-> u,
                   base |-> Base(p)])
  \/ \E p \in Procs :
       \/ ExecGetTask(p)
       \/ ExecCanGetTask(p)
       \/ ExecCanReadTasks(p)
       \/ ExecReadTasks(p)
       \/ ExecWriteTasks(p)
       \/ VerifyGetTask(p)
       \/ VerifySummaryRead(p)
       \/ VerifySummaryWrite(p)
       \/ VerifyStatusRead(p)
       \/ VerifyStatusWrite(p)
       \/ UpdateGetTask(p)
       \/ UpdateContentGetTask(p)
       \/ UpdateReadTasks(p)
       \/ UpdateWriteTasks(p)

SpecConc == Init /\ [][NextConc]_vars

----------------------------------------------------------------------------
(* clearAllTasks served while verify_task is served                        *)

\* clearAllTasks: const allTasks = await readTasks(); the name of the backup
\* is made before the next await
ClearReadTasks(p) ==
  /\ pc[p] = "clear_all_tasks"
  /\ NoWrite
  /\ IF Len(tasks) = 0
     THEN Finish(p, [op |-> "clear_all_tasks", success |-> TRUE,
                     message |-> "No tasks to clear", backupFile |-> 0,
                     read |-> tasks, overwritten |-> tasks])
     ELSE Goto(p, "clearAllTasks:writeBackup", [loc[p] EXCEPT !.snap = tasks])

\* clearAllTasks: await fs.writeFile(memoryFilePath, completedTasks)
ClearWriteBackup(p) ==
  /\ pc[p] = "clearAllTasks:writeBackup"
  /\ NoWrite
  /\ archives' = clearAllTasks(loc[p].snap, archives, clock).archives
  /\ pc' = [pc EXCEPT ![p] = "clearAllTasks:writeTasks"]
  /\ UNCHANGED <<loc, last, req, calls, clock, nextId, git, present>>

\* clearAllTasks: await writeTasks([])
ClearWriteTasks(p) ==
  /\ pc[p] = "clearAllTasks:writeTasks"
  /\ Write(clearAllTasks(loc[p].snap, archives, clock).tasks)
  /\ Finish(p, [op |-> "clear_all_tasks", success |-> TRUE,
                message |-> "Successfully cleared all tasks",
                backupFile |-> clearAllTasks(loc[p].snap, archives, clock).backupFile,
                read |-> loc[p].snap, overwritten |-> tasks])

NextClear ==
  \/ \E p \in Procs : Receive(p, [op |-> "clear_all_tasks", base |-> Base(p)])
  \/ \E p \in Procs, id \in Ids(tasks), s \in Summaries :
       Receive(p, [op |-> "verify_task", taskId |-> id, summary |-> s,
                   score |-> MinScore, base |-> Base(p)])
  \/ \E p \in Procs :
       \/ ClearReadTasks(p)
       \/ ClearWriteBackup(p)
       \/ ClearWriteTasks(p)
       \/ VerifyGetTask(p)
       \/ VerifySummaryRead(p)
       \/ VerifySummaryWrite(p)
       \/ VerifyStatusRead(p)
       \/ VerifyStatusWrite(p)

SpecClear == Init /\ [][NextClear]_vars

----------------------------------------------------------------------------
(* A read served while the first batchCreateOrUpdateTasks is served, on a  *)
(* data directory that may not hold tasks.json yet. Every readTasks and    *)
(* writeTasks begins with ensureDataDir.                                   *)

ReadOps == {"getAllTasks", "getTaskById"}

\* ensureDataDir: try { await fs.access(TASKS_FILE) }, on behalf of the
\* readTasks of an operation or of writeTasks
FsAccess(p) ==
  /\ pc[p] \in ReadOps \cup {"batchCreateOrUpdateTasks", "writeTasks"}
  /\ NoWrite
  /\ Goto(p, "ensureDataDir",
          [found |-> present, from |-> pc[p], snap |-> loc[p].snap])

\* ensureDataDir: catch { await fs.writeFile(TASKS_FILE, { tasks: [] }) }
EnsureDataDir(p) ==
  /\ pc[p] = "ensureDataDir"
  /\ IF loc[p].found
     THEN UNCHANGED <<tasks, everDone, present>>
     ELSE Write(<<>>) /\ present' = TRUE
  /\ pc' = [pc EXCEPT ![p] = IF loc[p].from = "writeTasks"
                             THEN "fs.writeFile" ELSE "fs.readFile"]
  /\ UNCHANGED <<loc, last, req, calls, clock, archives, nextId, git>>

\* readTasks: await fs.readFile(TASKS_FILE); a read operation returns, and
\* batchCreateOrUpdateTasks builds allTasks and calls writeTasks
FsReadFile(p) ==
  /\ pc[p] = "fs.readFile"
  /\ present
  /\ UNCHANGED <<tasks, everDone, present, req, calls, clock, archives, git>>
  /\ IF req[p].op \in ReadOps
     THEN /\ pc' = [pc EXCEPT ![p] = "done"]
          /\ last' = [op |-> req[p].op, pre |-> tasks,
                      result |-> IF req[p].op = "getAllTasks" THEN Some(tasks)
                                 ELSE getTaskById(tasks, req[p].taskId)]
          /\ UNCHANGED <<loc, nextId>>
     ELSE LET b == batchCreateOrUpdateTasks(tasks, req[p].drafts, "append",
                                            Undef, nextId, clock) IN
          /\ nextId + b.used <= MaxIds
          /\ nextId' = nextId + b.used
          /\ IF b.threw
             THEN /\ pc' = [pc EXCEPT ![p] = "done"]
                  /\ last' = [op |-> req[p].op, pre |-> tasks, threw |-> TRUE]
                  /\ UNCHANGED loc
             ELSE /\ pc' = [pc EXCEPT ![p] = "writeTasks"]
                  /\ loc' = [loc EXCEPT ![p].snap = b.allTasks]
                  /\ UNCHANGED last

\* writeTasks: await fs.writeFile(TASKS_FILE, { tasks })
FsWriteFile(p) ==
  /\ pc[p] = "fs.writeFile"
  /\ Write(loc[p].snap)
  /\ present' = TRUE
  /\ pc' = [pc EXCEPT ![p] = "done"]
  /\ last' = [op |-> req[p].op, pre |-> tasks, threw |-> FALSE]
  /\ UNCHANGED <<loc, req, calls, clock, archives, nextId, git>>

FirstDrafts == {<<FullDraft("A", None)>>, <<BareDraft("B", None, Some(<<>>))>>,
                <<FullDraft("A", None), FullDraft("B", Some(<<"A">>))>>}

\* a data directory without tasks.json, or one that holds a collection
InitFresh ==
  /\ \/ InitStore /\ present = TRUE
     \/ InitStore /\ tasks = <<>> /\ present = FALSE
  /\ git = TRUE

NextFresh ==
  \/ \E p \in Procs : Receive(p, [op |-> "getAllTasks", base |-> Base(p)])
  \/ \E p \in Procs, id \in Range(UuidTable) :
       Receive(p, [op |-> "getTaskById", taskId |-> id, base |-> Base(p)])
  \/ \E p \in Procs, ds \in FirstDrafts :
       Receive(p, [op |-> "batchCreateOrUpdateTasks", drafts |-> ds,
                   base |-> Base(p)])
  \/ \E p \in Procs :
       \/ FsAccess(p)
       \/ EnsureDataDir(p)
       \/ FsReadFile(p)
       \/ FsWriteFile(p)

SpecFresh == InitFresh /\ [][NextFresh]_vars

----------------------------------------------------------------------------
(* Writing the snapshot in a data directory whose repository may be absent *)
(* and whose git commands may fail                                         *)

\* what the git commands of one writeTasks call do
GitOutcomes == {"ok", "git init fails", "initial commit fails", "commit fails"}

\* initGitIfNeeded: nothing when .git exists; otherwise git init, config,
\* .gitignore, add and the initial commit, whose errors are not caught
initGitIfNeeded(repo, e) ==
  IF repo THEN [threw |-> FALSE, repo |-> TRUE]
  ELSE IF e = "git init fails" THEN [threw |-> TRUE, repo |-> FALSE]
  ELSE IF e = "initial commit fails" THEN [threw |-> TRUE, repo |-> TRUE]
  ELSE [threw |-> FALSE, repo |-> TRUE]

\* commitTaskChanges: add, status, commit inside try/catch; errors are logged
commitTaskChanges(e) == [threw |-> FALSE, committed |-> e = "ok"]

\* writeTasks: repository initialisation, then the file, then the commit
writeTasks(file, ts, commitMessage, repo, e) ==
  LET g == initGitIfNeeded(repo, e) IN
  IF g.threw
  THEN [threw |-> TRUE, file |-> file, repo |-> g.repo, committed |-> FALSE]
  ELSE [threw |-> FALSE, file |-> ts, repo |-> g.repo,
        committed |-> commitMessage /\ commitTaskChanges(e).committed]

\* a store operation that hands the collection ts to writeTasks when it
\* has something to write
Persist(op, wrote, ts, e) ==
  LET w == writeTasks(tasks, ts, TRUE, git, e) IN
  /\ IF wrote
     THEN Write(w.file) /\ git' = w.repo
     ELSE UNCHANGED <<tasks, everDone, git>>
  /\ last' = [op |-> op, pre |-> tasks, reached |-> wrote, snapshot |-> ts,
              threw |-> wrote /\ w.threw, outcome |-> e, repo |-> git,
              committed |-> wrote /\ w.committed]
  /\ calls' = calls + 1
  /\ UNCHANGED <<clock, pc, req, loc, archives, present>>

WriteUpdateTaskStatus(taskId, status, e) ==
  LET r == updateTaskStatus(tasks, taskId, status, clock) IN
  /\ Ready
  /\ Persist("updateTaskStatus", r.wrote, r.tasks, e)
  /\ UNCHANGED nextId

WriteDeleteTask(taskId, e) ==
  LET r == deleteTask(tasks, taskId) IN
  /\ Ready
  /\ Persist("deleteTask", r.wrote, r.tasks, e)
  /\ UNCHANGED nextId

WriteBatch(updateMode, drafts, ga, e) ==
  LET r == batchCreateOrUpdateTasks(tasks, drafts, updateMode, ga, nextId, clock) IN
  /\ Ready
  /\ nextId + r.used <= MaxIds
  /\ Persist("batchCreateOrUpdateTasks", ~r.threw, r.allTasks, e)
  /\ nextId' = nextId + r.used

\* the data directory may or may not hold its repository yet
InitGit == InitStore /\ git \in BOOLEAN /\ present = TRUE

NextGit ==
  \/ Tick
  \/ Return
  \/ Ready /\ \E id \in TaskIds(tasks), st \in Statuses, e \in GitOutcomes :
                WriteUpdateTaskStatus(id, st, e)
  \/ Ready /\ \E id \in TaskIds(tasks), e \in GitOutcomes : WriteDeleteTask(id, e)
  \/ Ready /\ \E ds \in Batches(tasks), ga \in GlobalAnalysis, e \in GitOutcomes :
                WriteBatch("append", ds, ga, e)

SpecGit == InitGit /\ [][NextGit]_vars

----------------------------------------------------------------------------
(* An agent that keeps calling execute_task and verify_task                *)

\* stores left by one split_tasks on the empty store, the stores of the two
\* runs of the tools, and a started task given a dependency on a new task
ProgressStores ==
  {<<>>} \cup Seeds
  \cup {splitTasksRaw(<<>>, NoArchives, "clearAllTasks", b, "ga", 0, 1).tasks :
          b \in BatchPool(<<>>)}
  \cup {updateTaskContentTool(
          splitTasksRaw(Started, NoArchives, "append", <<BareDraft("A", None, None)>>,
                        "ga", Len(FirstBatch), 1).tasks,
          uuidv4(1), [NoUpdates EXCEPT !.dependencies = Some(<<uuidv4(3)>>)], 1).tasks}

InitProgress ==
  /\ tasks \in ProgressStores
  /\ nextId = MaxIds
  /\ archives = NoArchives
  /\ clock = 1
  /\ last = [op |-> "none"]
  /\ everDone = Done(tasks)
  /\ pc = [p \in Procs |-> "idle"]
  /\ req = [p \in Procs |-> [op |-> "none"]]
  /\ loc = [p \in Procs |-> [op |-> "none"]]
  /\ calls = 0
  /\ git = TRUE
  /\ present = TRUE

\* execute_task, called whatever the number of calls served
AgentExecuteTask(taskId) ==
  LET r == executeTask(tasks, taskId, clock) IN
  /\ Write(r.tasks)
  /\ last' = [op |-> "execute_task", taskId |-> taskId, pre |-> tasks,
              post |-> r.tasks, outcome |-> r.outcome, blockedBy |-> r.blockedBy]
  /\ UNCHANGED <<archives, nextId, clock, pc, req, loc, calls, git, present>>

\* verify_task with a score that completes the task
AgentVerifyTask(taskId, summary) ==
  LET r == verifyTask(tasks, taskId, summary, MinScore, clock) IN
  /\ Write(r.tasks)
  /\ last' = [op |-> "verify_task", taskId |-> taskId, summary |-> summary,
              score |-> MinScore, pre |-> tasks, outcome |-> r.outcome]
  /\ UNCHANGED <<archives, nextId, clock, pc, req, loc, calls, git, present>>

NextProgress ==
  \/ Tick
  \/ Return
  \/ \E id \in TaskIds(tasks) : AgentExecuteTask(id)
  \/ \E id \in TaskIds(tasks), s \in Summaries : AgentVerifyTask(id, s)

\* a call of the agent that changes the store
AgentProgress ==
  /\ \/ \E id \in TaskIds(tasks) : AgentExecuteTask(id)
     \/ \E id \in TaskIds(tasks), s \in Summaries : AgentVerifyTask(id, s)
  /\ tasks' # tasks

\* the agent does not stop calling while a call would change the store
FairAgent == WF_vars(AgentProgress)

SpecProgress == InitProgress /\ [][NextProgress]_vars /\ FairAgent

----------------------------------------------------------------------------
(* Search over the tasks file and the archives of the memory directory     *)
(*                                                                         *)
(* A text is a sequence of characters. The texts of the tasks are written  *)
(* with the letters x, q, X, Q, which occur in no property name, status,   *)
(* timestamp or file path of an archive, so the lines of an archive that   *)
(* grep can match are the lines of the text properties and of the id.      *)

Space == " "

LowerChar(c) == IF c = "X" THEN "x" ELSE IF c = "Q" THEN "q" ELSE c

\* String.prototype.toLowerCase
toLowerCase(s) == [i \in 1..Len(s) |-> LowerChar(s[i])]

\* String.prototype.includes
includes(s, k) == \E i \in 0..(Len(s) - Len(k)) : SubSeq(s, i + 1, i + Len(k)) = k

RECURSIVE SplitFrom(_, _, _)
\* the words of s from position i on, cur being the word read so far
SplitFrom(s, i, cur) ==
  IF i > Len(s)
  THEN IF cur = <<>> THEN <<>> ELSE <<cur>>
  ELSE IF s[i] = Space
       THEN (IF cur = <<>> THEN <<>> ELSE <<cur>>) \o SplitFrom(s, i + 1, <<>>)
       ELSE SplitFrom(s, i + 1, Append(cur, s[i]))

\* query.split(/\s+/).filter((k) => k.length > 0)
Keywords(query) == SplitFrom(query, 1, <<>>)

\* the filter of a keyword search, on one task
MatchesKeywords(task, query) ==
  LET keywords == Keywords(query) IN
  \/ Len(keywords) = 0
  \/ \A n \in 1..Len(keywords) :
       LET lowerKeyword == toLowerCase(keywords[n]) IN
       \/ includes(toLowerCase(task.name), lowerKeyword)
       \/ includes(toLowerCase(task.description), lowerKeyword)
       \/ task.notes # <<>> /\ includes(toLowerCase(task.notes), lowerKeyword)
       \/ /\ task.implementationGuide # <<>>
          /\ includes(toLowerCase(task.implementationGuide), lowerKeyword)
       \/ task.summary # <<>> /\ includes(toLowerCase(task.summary), lowerKeyword)

Matches(task, query, isId) ==
  IF isId THEN task.id = query ELSE MatchesKeywords(task, query)

filterCurrentTasks(ts, query, isId) ==
  SelectSeq(ts, LAMBDA task : Matches(task, query, isId))

ShellSpecial == {"&", ";", "`", "$", "\"", "'", "<", ">", "|"}

escapeShellArg(arg) == SelectSeq(arg, LAMBDA c : c \notin ShellSpecial)

\* generateSearchCommand on Unix: the patterns of grep -r and of the greps
\* it is piped into
generateSearchCommand(query, isId) ==
  LET safeQuery == escapeShellArg(query)
      keywords == Keywords(safeQuery)
  IN IF isId \/ Len(keywords) = 1 THEN <<safeQuery>>
     ELSE IF Len(keywords) = 0 THEN <<escapeShellArg(<<>>)>>
     ELSE [n \in 1..Len(keywords) |-> escapeShellArg(keywords[n])]

\* the lines of JSON.stringify({tasks}, null, 2) that hold a text: one line
\* for each property of each task
FileLines(content) ==
  UNION {{content[i].id, content[i].name, content[i].description}
           \cup {t \in {content[i].notes, content[i].implementationGuide,
                        content[i].summary} : t # <<>>}
         : i \in 1..Len(content)}

\* the files named in the output of the command: a line is printed when it
\* holds every pattern, letter case included
matchedFiles(dir, cmd) ==
  {f \in DOMAIN dir :
     \E line \in FileLines(dir[f]) : \A n \in 1..Len(cmd) : includes(line, cmd[n])}

RECURSIVE SortReverse(_)
\* Array.from(files).sort().reverse()
SortReverse(files) ==
  IF files = {} THEN <<>>
  ELSE LET newest == CHOOSE f \in files : \A g \in files : g <= f
       IN <<newest>> \o SortReverse(files \ {newest})

MAX_FILES_TO_READ == 10

Slice(s, n) == SubSeq(s, 1, IF Len(s) < n THEN Len(s) ELSE n)

RECURSIVE MemoryTasks(_, _, _, _, _)
\* the filtered tasks of sortedFiles[i..], in the order they are pushed
MemoryTasks(dir, sortedFiles, query, isId, i) ==
  IF i > Len(sortedFiles) THEN <<>>
  ELSE SelectSeq(dir[sortedFiles[i]], LAMBDA task : Matches(task, query, isId))
       \o MemoryTasks(dir, sortedFiles, query, isId, i + 1)

RECURSIVE MergeInto(_, _, _)
\* taskMap after the tasks of ts[i..] are set when their id is not a key
MergeInto(map, ts, i) ==
  IF i > Len(ts) THEN map
  ELSE IF ts[i].id \in Ids(map) THEN MergeInto(map, ts, i + 1)
       ELSE MergeInto(Append(map, ts[i]), ts, i + 1)

\* the comparison function of allTasks.sort
compareTasks(a, b) ==
  IF a.completedAt # NoDate /\ b.completedAt # NoDate
  THEN b.completedAt - a.completedAt
  ELSE IF a.completedAt # NoDate THEN 0 - 1
  ELSE IF b.completedAt # NoDate THEN 1
  ELSE b.updatedAt - a.updatedAt

\* x put into the sorted sequence after every element that is not to
\* come after it
InsertSorted(sorted, x) ==
  LET before == {i \in 1..Len(sorted) : compareTasks(sorted[i], x) <= 0}
      n == IF before = {} THEN 0
           ELSE CHOOSE i \in before : \A j \in before : j <= i
  IN SubSeq(sorted, 1, n) \o <<x>> \o SubSeq(sorted, n + 1, Len(sorted))

RECURSIVE SortTasks(_, _)
\* Array.prototype.sort, which is stable, on the first n elements of ts
SortTasks(ts, n) ==
  IF n = 0 THEN <<>> ELSE InsertSorted(SortTasks(ts, n - 1), ts[n])

CeilDiv(a, b) == (a + b - 1) \div b

\* the pagination with the page number taken as it is given
Paginate_Unclamped(allTasks, page, pageSize) ==
  LET totalResults == Len(allTasks)
      totalPages == CeilDiv(totalResults, pageSize)
      startIndex == (page - 1) * pageSize
      endIndex == IF startIndex + pageSize < totalResults
                  THEN startIndex + pageSize ELSE totalResults
  IN [tasks |-> IF page < 1 \/ startIndex >= totalResults THEN <<>>
                ELSE SubSeq(allTasks, startIndex + 1, endIndex),
      pagination |-> [currentPage |-> page,
                      totalPages |-> IF totalPages = 0 THEN 1 ELSE totalPages,
                      totalResults |-> totalResults,
                      hasMore |-> page < totalPages]]

\* the pagination of searchTasksWithCommand, on the sorted results
Paginate(allTasks, page, pageSize) ==
  LET totalResults == Len(allTasks)
      totalPages == CeilDiv(totalResults, pageSize)
      upper == IF totalPages = 0 THEN 1 ELSE totalPages
      safePage == IF page < 1 THEN 1 ELSE IF page > upper THEN upper ELSE page
      startIndex == (safePage - 1) * pageSize
      endIndex == IF startIndex + pageSize < totalResults
                  THEN startIndex + pageSize ELSE totalResults
  IN [tasks |-> SubSeq(allTasks, startIndex + 1, endIndex),
      pagination |-> [currentPage |-> safePage, totalPages |-> upper,
                      totalResults |-> totalResults,
                      hasMore |-> safePage < totalPages]]

\* the results of a search before pagination: merged and sorted
SearchResults(currentTasks, dir, query, isId) ==
  LET cmd == generateSearchCommand(query, isId)
      sortedFiles == Slice(SortReverse(matchedFiles(dir, cmd)), MAX_FILES_TO_READ)
      memoryTasks == MemoryTasks(dir, sortedFiles, query, isId, 1)
      filteredCurrentTasks == filterCurrentTasks(currentTasks, query, isId)
      merged == MergeInto(MergeInto(<<>>, filteredCurrentTasks, 1), memoryTasks, 1)
  IN SortTasks(merged, Len(merged))

searchTasksWithCommand(currentTasks, dir, query, isId, page, pageSize) ==
  LET cmd == generateSearchCommand(query, isId)
      sortedFiles == Slice(SortReverse(matchedFiles(dir, cmd)), MAX_FILES_TO_READ)
      memoryTasks == MemoryTasks(dir, sortedFiles, query, isId, 1)
      filteredCurrentTasks == filterCurrentTasks(currentTasks, query, isId)
      merged == MergeInto(MergeInto(<<>>, filteredCurrentTasks, 1), memoryTasks, 1)
  IN Paginate(SortTasks(merged, Len(merged)), page, pageSize)

\* a task as the search reads it
SearchTask(id, name, description, summary, status, completedAt, updatedAt) ==
  [id |-> id, name |-> name, description |-> description, notes |-> <<>>,
   implementationGuide |-> <<>>, summary |-> summary, status |-> status,
   completedAt |-> completedAt, updatedAt |-> updatedAt]

Archived1 == SearchTask(<<"1">>, <<"X">>, <<"q">>, <<"q", "q">>, COMPLETED, 1, 1)
Archived2 == SearchTask(<<"2">>, <<"x", "q">>, <<"q">>, <<"x">>, COMPLETED, 1, 2)
Archived3 == SearchTask(<<"3">>, <<"q">>, <<"x">>, <<"Q">>, COMPLETED, 2, 2)
Live4 == SearchTask(<<"4">>, <<"x">>, <<"Q">>, <<>>, PENDING, NoDate, 1)
Live5 == SearchTask(<<"5">>, <<"q">>, <<"q">>, <<>>, IN_PROGRESS, NoDate, 2)
Live6 == SearchTask(<<"6">>, <<"x">>, <<"x">>, <<"q">>, COMPLETED, 2, 2)

\* tasks files and memory directories that clear_all_tasks leaves behind
LiveStores == {<<>>, <<Live4, Live5>>, <<Live4, Live6, Live5>>}

MemoryDirs ==
  {NoArchives,
   WriteFile(NoArchives, 1, <<Archived1>>),
   WriteFile(NoArchives, 2, <<Archived1, Archived2>>),
   WriteFile(WriteFile(NoArchives, 1, <<Archived1>>), 2, <<Archived3, Archived2>>)}

Queries ==
  {<<>>, <<"x">>, <<"X">>, <<"q">>, <<"x", "q">>, <<"x", Space, "q">>,
   <<"Q", Space, Space, "x">>, <<"1">>, <<"4">>}

Pages == {0, 1, 2, 3}
PageSizes == {1, 2, 5}

RECURSIVE AcrossPages(_, _, _, _, _, _)
\* the tasks of the pages p, p + 1, ... of one search
AcrossPages(currentTasks, dir, query, isId, pageSize, p) ==
  LET r == searchTasksWithCommand(currentTasks, dir, query, isId, p, pageSize) IN
  IF r.pagination.hasMore
  THEN r.tasks \o AcrossPages(currentTasks, dir, query, isId, pageSize, p + 1)
  ELSE r.tasks

SearchTasksWithCommand(query, isId, page, pageSize) ==
  LET r == searchTasksWithCommand(tasks, archives, query, isId, page, pageSize) IN
  /\ Ready
  /\ last' = [op |-> "search", query |-> query, isId |-> isId, page |-> page,
              pageSize |-> pageSize, tasks |-> r.tasks,
              pagination |-> r.pagination,
              ordered |-> SearchResults(tasks, archives, query, isId),
              allPages |-> AcrossPages(tasks, archives, query, isId, pageSize, 1)]
  /\ calls' = calls + 1
  /\ UNCHANGED <<tasks, archives, nextId, clock, everDone, pc, req, loc, git, present>>

InitSearch ==
  /\ tasks \in LiveStores
  /\ archives \in MemoryDirs
  /\ nextId = 0
  /\ clock = MaxClock
  /\ last = [op |-> "none"]
  /\ everDone = {}
  /\ pc = [p \in Procs |-> "idle"]
  /\ req = [p \in Procs |-> [op |-> "none"]]
  /\ loc = [p \in Procs |-> [op |-> "none"]]
  /\ calls = 0
  /\ git = TRUE
  /\ present = TRUE

NextSearch ==
  \/ Return
  \/ Ready /\ \E q \in Queries, isId \in BOOLEAN, p \in Pages, n \in PageSizes :
                SearchTasksWithCommand(q, isId, p, n)

SpecSearch == InitSearch /\ [][NextSearch]_vars

----------------------------------------------------------------------------
(* Properties of one call, stated on the call just served                  *)

Find(ts, id) == ts[CHOOSE i \in 1..Len(ts) : ts[i].id = id]

IsCompletedIn(ts, id) == \E i \in 1..Len(ts) : ts[i].id = id /\ ts[i].status = COMPLETED

\* the dependencies of task t that are not Completed tasks of ts
Incomplete(ts, t) == {d \in Range(t.dependencies) : ~IsCompletedIn(ts, d)}

\* C5 as claimed: canExecute exactness for every task. A task with a
\* dependency that is not Completed gets canExecute = false and blockedBy =
\* exactly those dependencies; with every dependency Completed it gets true;
\* the query changes nothing stored.
C5_ExactnessForEveryTask ==
  (last.op = "canExecuteTask" /\ last.taskId \in Ids(last.pre)) =>
    LET t == Find(last.pre, last.taskId) IN
    /\ Incomplete(last.pre, t) # {} =>
         /\ ~last.canExecute
         /\ IsSome(last.blockedBy)
         /\ Range(Get(last.blockedBy)) = Incomplete(last.pre, t)
    /\ Incomplete(last.pre, t) = {} => last.canExecute
    /\ tasks = last.pre

\* C5 amended: the exactness holds for every task that is not Completed; a
\* Completed task gets canExecute = false and no blockedBy list.
C5_ExactnessForOpenTasks ==
  (last.op = "canExecuteTask" /\ last.taskId \in Ids(last.pre)) =>
    LET t == Find(last.pre, last.taskId) IN
    /\ (t.status # COMPLETED /\ Incomplete(last.pre, t) # {}) =>
         /\ ~last.canExecute
         /\ IsSome(last.blockedBy)
         /\ Range(Get(last.blockedBy)) = Incomplete(last.pre, t)
    /\ (t.status # COMPLETED /\ Incomplete(last.pre, t) = {}) =>
         last.canExecute /\ ~IsSome(last.blockedBy)
    /\ t.status = COMPLETED => ~last.canExecute /\ ~IsSome(last.blockedBy)
    /\ tasks = last.pre

\* a task with one Completed and one incomplete dependency was asked about
C5_Witness ==
  /\ last.op = "canExecuteTask"
  /\ IsSome(last.blockedBy)
  /\ last.taskId \in Ids(last.pre)
  /\ Range(Get(last.blockedBy)) # Range(Find(last.pre, last.taskId).dependencies)

\* the tasks other than id whose dependencies contain id
Dependents(ts, id) ==
  SelectSeq(ts, LAMBDA t : t.id # id /\ id \in Range(t.dependencies))

NamesOf(ts) == [i \in 1..Len(ts) |-> ts[i].name]

Deletable(ts, id) ==
  /\ id \in Ids(ts)
  /\ Find(ts, id).status # COMPLETED
  /\ Len(Dependents(ts, id)) = 0

\* C6 as claimed: deleteTask(A) succeeds and removes exactly A iff A exists,
\* is not Completed and has no dependent; otherwise nothing changes, and
\* whenever dependents exist the reason lists each dependent's name.
C6_DependentsAlwaysListed ==
  last.op = "delete_task" =>
    /\ last.success <=> Deletable(last.pre, last.taskId)
    /\ last.success => tasks = SelectSeq(last.pre, LAMBDA t : t.id # last.taskId)
    /\ ~last.success => tasks = last.pre
    /\ Len(Dependents(last.pre, last.taskId)) > 0 =>
         last.dependents = NamesOf(Dependents(last.pre, last.taskId))

\* C6 amended: the same rule, the dependents' names being listed when A
\* exists and is not Completed (a Completed or unknown A is rejected for
\* that reason alone).
C6_DeletionRule ==
  last.op = "delete_task" =>
    /\ last.success <=> Deletable(last.pre, last.taskId)
    /\ last.success => tasks = SelectSeq(last.pre, LAMBDA t : t.id # last.taskId)
    /\ ~last.success => tasks = last.pre
    /\ (/\ last.taskId \in Ids(last.pre)
        /\ Find(last.pre, last.taskId).status # COMPLETED
        /\ Len(Dependents(last.pre, last.taskId)) > 0) =>
         last.dependents = NamesOf(Dependents(last.pre, last.taskId))

\* a deletion was rejected with the names of the dependents
C6_Witness ==
  /\ last.op = "delete_task"
  /\ ~last.success
  /\ Len(last.dependents) > 0

DraftNames(drafts) == {drafts[i].name : i \in 1..Len(drafts)}

\* C7: a batch with two drafts of one name is rejected under every strategy,
\* the snapshot is unchanged and no archive is written.
C7_DuplicateNamesRejected ==
  (last.op = "split_tasks" /\ Cardinality(DraftNames(last.drafts)) < Len(last.drafts)) =>
    /\ last.rejected
    /\ tasks = last.pre
    /\ archives = last.preArchives

\* a clearAllTasks batch with a duplicate name met a store holding a Completed task
C7_Witness ==
  /\ last.op = "split_tasks"
  /\ last.updateMode = "clearAllTasks"
  /\ Cardinality(DraftNames(last.drafts)) < Len(last.drafts)
  /\ Done(last.pre) # {}
  /\ last.rejected

LastN(ts, n) == SubSeq(ts, Len(ts) - n + 1, Len(ts))

\* C8: after overwrite the collection is the previously Completed tasks,
\* unchanged, followed by one new Pending task with a fresh id per draft.
C8_OverwritePartition ==
  (last.op = "split_tasks" /\ last.updateMode = "overwrite" /\ ~last.rejected) =>
    LET kept == SelectSeq(last.pre, LAMBDA t : t.status = COMPLETED)
        n == Len(last.drafts)
        new == LastN(tasks, n)
    IN /\ ~last.threw
       /\ Len(tasks) = Len(kept) + n
       /\ SubSeq(tasks, 1, Len(kept)) = kept
       /\ last.createdTasks = new
       /\ \A i \in 1..n :
            /\ new[i].name = last.drafts[i].name
            /\ new[i].status = PENDING
            /\ new[i].id \notin Ids(last.pre)
            /\ \A j \in 1..n : new[j].id = new[i].id => j = i
       /\ \A i \in 1..Len(last.pre) :
            last.pre[i].status # COMPLETED => last.pre[i].id \notin Ids(tasks)

\* an overwrite met a store holding Completed and open tasks
C8_Witness ==
  /\ last.op = "split_tasks"
  /\ last.updateMode = "overwrite"
  /\ ~last.rejected
  /\ Done(last.pre) # {}
  /\ Done(last.pre) # Ids(last.pre)
  /\ Len(last.drafts) = 2

OpenNames(ts) == {ts[i].name : i \in {j \in 1..Len(ts) : ts[j].status # COMPLETED}}

\* C9 as claimed: under selective, a draft whose name is that of an existing
\* Completed task, or of no existing task, becomes a new Pending task with a
\* fresh id, stored and returned; the returned list has one task per draft.
C9_SelectiveCreatesNew ==
  (last.op = "split_tasks" /\ last.updateMode = "selective" /\ ~last.rejected) =>
    /\ Len(last.createdTasks) = Len(last.drafts)
    /\ \A i \in 1..Len(last.drafts) :
         last.drafts[i].name \notin OpenNames(last.pre) =>
           \E k \in 1..Len(last.createdTasks) :
             /\ last.createdTasks[k].name = last.drafts[i].name
             /\ last.createdTasks[k].status = PENDING
             /\ last.createdTasks[k].id \notin Ids(last.pre)
             /\ last.createdTasks[k].id \in Ids(tasks)

\* C10 as claimed: under selective, a draft whose name is that of an existing
\* open task updates it: id and createdAt kept, every overwritable field
\* takes the draft's value, an absent or empty dependencies or relatedFiles
\* of the draft included.
C10_SelectiveOverwritesFields ==
  (last.op = "split_tasks" /\ last.updateMode = "selective" /\ ~last.rejected) =>
    \A i \in 1..Len(last.drafts) :
      last.drafts[i].name \in OpenNames(last.pre) =>
        \E e \in 1..Len(last.pre), k \in 1..Len(tasks) :
          LET d == last.drafts[i] IN
          /\ last.pre[e].name = d.name
          /\ last.pre[e].status # COMPLETED
          /\ tasks[k].id = last.pre[e].id
          /\ tasks[k].createdAt = last.pre[e].createdAt
          /\ tasks[k].name = d.name
          /\ tasks[k].description = d.description
          /\ tasks[k].notes = d.notes
          /\ tasks[k].implementationGuide = d.implementationGuide
          /\ tasks[k].verificationCriteria = d.verificationCriteria
          /\ tasks[k].agent = d.agent
          /\ tasks[k].relatedFiles = d.relatedFiles
          /\ (~IsSome(d.dependencies) \/ Len(Get(d.dependencies)) = 0) =>
               tasks[k].dependencies = <<>>

StoreOps == {"updateTask", "updateTaskStatus", "updateTaskSummary", "updateTaskContent"}

\* C2: an update of a Completed task that names a field other than summary
\* and relatedFiles is rejected and leaves the stored collection as it was.
C2_CompletedImmutable ==
  (/\ last.op \in StoreOps
   /\ last.taskId \in Done(last.pre)
   /\ ~(last.named \subseteq {"summary", "relatedFiles"})) =>
    /\ last.rejected
    /\ tasks = last.pre

\* updateTask was asked to change the status of a Completed task, and
\* updateTaskContent its name
C2_Witness ==
  /\ last.op \in {"updateTask", "updateTaskContent"}
  /\ last.taskId \in Done(last.pre)
  /\ last.named \cap {"status", "name"} # {}
  /\ last.rejected

\* what a request leaves in the store when it is served alone
Serve(ts, r) ==
  IF r.op = "execute_task" THEN executeTask(ts, r.taskId, clock).tasks
  ELSE IF r.op = "verify_task"
    THEN verifyTask(ts, r.taskId, r.summary, r.score, clock).tasks
  ELSE updateTaskContentTool(ts, r.taskId, r.updates, clock).tasks

AllServed == \A p \in Procs : pc[p] = "done"

\* C1: two mutating requests in flight at the same time leave the snapshot
\* that serving them one after the other, in one of the two orders, leaves.
C1_Serialized ==
  AllServed =>
    \/ tasks = Serve(Serve(req[1].base, req[1]), req[2])
    \/ tasks = Serve(Serve(req[1].base, req[2]), req[1])

\* C3: execute_task makes a task InProgress only if, when the status is
\* written, each of the stored task's dependencies is a Completed task;
\* a Pending task with an incomplete dependency is rejected with the
\* blocking ids and its status is unchanged.
C3_StartGated ==
  (last.op = "execute_task" /\ last.taskId \in Ids(last.pre)) =>
    LET t == Find(last.pre, last.taskId) IN
    /\ last.outcome = "started" => Incomplete(last.pre, t) = {}
    /\ (t.status = PENDING /\ Incomplete(last.pre, t) # {}) =>
         /\ last.outcome = "cannot be executed"
         /\ IsSome(last.blockedBy)
         /\ Find(last.post, last.taskId).status = t.status

\* C4: a task id once stored as Completed is never stored with another
\* status afterwards; it stays Completed or leaves the collection.
C4_CompletedNeverReverted ==
  \A i \in 1..Len(tasks) : tasks[i].id \in everDone => tasks[i].status = COMPLETED

SplitServed == last.op = "split_tasks" /\ ~last.rejected

DeclaredRefs(d) == IF IsSome(d.dependencies) THEN Range(Get(d.dependencies)) ELSE {}

\* a reference that names a task of the collection ts, by id or by name
Resolvable(ts, ref) ==
  IF IsUuidFormat(ref) THEN ref \in Ids(ts)
  ELSE \E i \in 1..Len(ts) : ts[i].name = ref

\* the ids that the references of draft d stand for in ts
ResolvedIds(ts, d) ==
  {id \in Ids(ts) :
     \E ref \in DeclaredRefs(d) :
       IF IsUuidFormat(ref) THEN id = ref
       ELSE \E i \in 1..Len(ts) : ts[i].name = ref /\ ts[i].id = id}

\* C11: a draft with a dependency reference that resolves to no task is
\* still created or updated, and the task stored for it depends on the
\* tasks its resolvable references stand for and on nothing else.
C11_DanglingDropped ==
  SplitServed =>
    \A i \in 1..Len(last.drafts) :
      LET d == last.drafts[i] IN
      (\E ref \in DeclaredRefs(d) : ~Resolvable(tasks, ref)) =>
        \E k \in 1..Len(last.createdTasks) :
          LET t == last.createdTasks[k] IN
          /\ t.name = d.name
          /\ \E j \in 1..Len(tasks) :
               /\ tasks[j].id = t.id
               /\ Range(tasks[j].dependencies) \subseteq ResolvedIds(tasks, d)
               /\ \A ref \in DeclaredRefs(d) :
                    Resolvable(tasks, ref) =>
                      \E id \in Range(tasks[j].dependencies) :
                        id \in ResolvedIds(tasks, [d EXCEPT !.dependencies = Some(<<ref>>)])

\* the stored task with the id of the task returned for the draft named n
StoredFor(n) ==
  {t \in Range(tasks) :
     \E k \in 1..Len(last.createdTasks) :
       last.createdTasks[k].name = n /\ last.createdTasks[k].id = t.id}

\* C12: when draft P lists the name of draft Q of the same batch, the task
\* stored for P depends on the id of the task stored for Q, whether Q comes
\* before or after P, under every strategy.
C12_BatchNamesResolve ==
  SplitServed =>
    \A i, j \in 1..Len(last.drafts) :
      (i # j /\ last.drafts[j].name \in DeclaredRefs(last.drafts[i])) =>
        \E tp \in StoredFor(last.drafts[i].name), tq \in StoredFor(last.drafts[j].name) :
          tq.id \in Range(tp.dependencies)

\* C13: clear_all_tasks on a non-empty collection leaves the collection
\* empty, writes one archive holding exactly the tasks that were Completed,
\* and reports the number of tasks removed.
C13_ClearAllArchives ==
  (last.op = "clear_all_tasks" /\ Len(last.pre) > 0) =>
    /\ last.success
    /\ tasks = <<>>
    /\ last.backupFile \in DOMAIN archives
    /\ archives[last.backupFile] = SelectSeq(last.pre, LAMBDA t : t.status = COMPLETED)
    /\ DOMAIN archives = DOMAIN last.preArchives \cup {last.backupFile}
    /\ \A f \in DOMAIN archives \ {last.backupFile} : archives[f] = last.preArchives[f]
    /\ last.removed = Len(last.pre)

\* a collection with Completed and open tasks was cleared
C13_Witness ==
  /\ last.op = "clear_all_tasks"
  /\ Done(last.pre) # {}
  /\ Done(last.pre) # Ids(last.pre)
  /\ last.removed = 2

\* the call just served ran clearAllTasks on a non-empty collection
Archived ==
  /\ Len(last.pre) > 0
  /\ \/ last.op = "clear_all_tasks"
     \/ last.op = "split_tasks" /\ last.updateMode = "clearAllTasks" /\ ~last.rejected

\* C14: a clearAllTasks that archives writes under a name no earlier archive
\* has, and no call changes the content of an archive written earlier.
C14_ArchivesImmutable ==
  last.op \in {"clear_all_tasks", "split_tasks"} =>
    /\ \A f \in DOMAIN last.preArchives :
         f \in DOMAIN archives /\ archives[f] = last.preArchives[f]
    /\ Archived => DOMAIN archives # DOMAIN last.preArchives


GitWriteOps == {"updateTaskStatus", "deleteTask", "batchCreateOrUpdateTasks"}

\* C15: version control is best effort: whenever a mutating operation hands
\* its collection to writeTasks, the snapshot is written and no error reaches
\* the caller, whatever happens to repository initialisation, staging or
\* commit
C15_GitBestEffort ==
  (last.op \in GitWriteOps /\ "reached" \in DOMAIN last /\ last.reached) =>
    /\ ~last.threw
    /\ tasks = last.snapshot

UpdateEntryPoints ==
  {"updateTask", "updateTaskSummary", "updateTaskRelatedFiles", "updateTaskContent"}

\* C16: an update of a Completed task that names only summary and/or
\* relatedFiles is accepted and applied through every update entry point,
\* and every other field except updatedAt keeps its value
C16_AllowedUpdatesAccepted ==
  (/\ last.op \in UpdateEntryPoints
   /\ "values" \in DOMAIN last
   /\ last.taskId \in Done(last.pre)
   /\ last.named # {}
   /\ last.named \subseteq {"summary", "relatedFiles"}) =>
    /\ ~last.rejected
    /\ \E i \in 1..Len(tasks) :
         /\ tasks[i].id = last.taskId
         /\ \A f \in DOMAIN tasks[i] :
              \/ f = "updatedAt"
              \/ f \in last.named /\ tasks[i][f] = last.values[f]
              \/ f \notin last.named /\ tasks[i][f] = Find(last.pre, last.taskId)[f]

\* C17: in every persisted state a task that has a completedAt or a summary
\* has status Completed
C17_CompletionFieldsOnlyOnCompleted ==
  \A i \in 1..Len(tasks) :
    (tasks[i].completedAt # NoDate \/ tasks[i].summary # Undef) =>
      tasks[i].status = COMPLETED

\* C18: executing a task that is already InProgress, whatever the state of
\* its dependencies, leaves the stored collection unchanged and reports that
\* the task is already in progress
C18_ExecuteInProgressIdempotent ==
  (/\ last.op = "execute_task"
   /\ \E i \in 1..Len(last.pre) :
        last.pre[i].id = last.taskId /\ last.pre[i].status = IN_PROGRESS) =>
    /\ tasks = last.pre
    /\ last.outcome = "already in progress"

\* every keyword of the query is, whatever its letter case, a part of one of
\* name, description, notes, implementationGuide and summary
KeywordMatch(task, query) ==
  \A n \in 1..Len(Keywords(query)) :
    \E text \in {task.name, task.description, task.notes, task.implementationGuide,
                 task.summary} :
      includes(toLowerCase(text), toLowerCase(Keywords(query)[n]))

\* C19: with at most 10 archives, a keyword search returns on its pages every
\* archived task that matches the keywords as a live task has to match them,
\* also when the keywords are in different properties or in another letter
\* case
C19_ArchiveSearchComplete ==
  (/\ last.op = "search"
   /\ ~last.isId
   /\ Cardinality(DOMAIN archives) <= 10) =>
    \A f \in DOMAIN archives : \A i \in 1..Len(archives[f]) :
      KeywordMatch(archives[f][i], last.query) =>
        archives[f][i].id \in Ids(last.allPages)

\* a comes before b in the order of the results
ComesFirst(a, b) ==
  IF a.completedAt # NoDate /\ b.completedAt # NoDate
  THEN \/ a.completedAt > b.completedAt
       \/ a.completedAt = b.completedAt /\ a.updatedAt >= b.updatedAt
  ELSE IF a.completedAt # NoDate THEN TRUE
  ELSE IF b.completedAt # NoDate THEN FALSE
  ELSE a.updatedAt >= b.updatedAt

\* C20: the results have the tasks with a completedAt first, by completedAt
\* descending; tasks with equal completedAt, and tasks without one, are by
\* updatedAt descending
C20_SearchOrdering ==
  last.op = "search" =>
    \A i \in 1..Len(last.allPages) : \A j \in 1..Len(last.allPages) :
      i < j => ComesFirst(last.allPages[i], last.allPages[j])

\* ceil(n / d) with a minimum of 1
PagesOf(n, d) ==
  IF n = 0 THEN 1
  ELSE CHOOSE k \in 1..n : (k - 1) * d < n /\ n <= k * d

\* C21: for every number of results, page size and page number, page 0 and
\* pages above totalPages included, search returns totalPages =
\* ceil(totalResults / pageSize) with a minimum of 1, the page clamped into
\* 1..totalPages, the tasks at the ranks of that page in the ordered result,
\* and hasMore exactly when a later page exists; the pages partition the
\* result
C21_Pagination ==
  last.op = "search" =>
    LET n == Len(last.ordered)
        totalPages == PagesOf(n, last.pageSize)
        currentPage == IF last.page < 1 THEN 1
                       ELSE IF last.page > totalPages THEN totalPages
                       ELSE last.page
        from == (currentPage - 1) * last.pageSize
    IN /\ last.pagination.totalResults = n
       /\ last.pagination.totalPages = totalPages
       /\ last.pagination.currentPage = currentPage
       /\ Len(last.tasks) = (IF from + last.pageSize < n THEN last.pageSize ELSE n - from)
       /\ \A k \in 1..Len(last.tasks) : last.tasks[k] = last.ordered[from + k]
       /\ last.pagination.hasMore = (currentPage < totalPages)
       /\ last.allPages = last.ordered

\* a page above the last of several pages was asked for
C21_Witness ==
  /\ last.op = "search"
  /\ last.pagination.totalPages >= 2
  /\ last.page > last.pagination.totalPages
  /\ Len(last.tasks) >= 1

\* lineStart and lineEnd are both present or both absent, and in order
LineRangeOk(file) ==
  /\ (file.lineStart = 0) = (file.lineEnd = 0)
  /\ file.lineStart <= file.lineEnd

FilesOk(files) ==
  IsSome(files) => \A n \in 1..Len(Get(files)) : LineRangeOk(Get(files)[n])

\* C22: every relatedFiles entry stored by split_tasks in any mode or by
\* update_task has lineStart and lineEnd both present or both absent, and in
\* order when present; an input that violates this is rejected and the
\* stored collection is left as it was
C22_LineRanges ==
  /\ \A i \in 1..Len(tasks) : FilesOk(tasks[i].relatedFiles)
  /\ (/\ last.op = "split_tasks"
      /\ \E n \in 1..Len(last.drafts) : ~FilesOk(last.drafts[n].relatedFiles)) =>
       tasks = last.pre
  /\ (last.op = "update_task" /\ ~FilesOk(last.updates.relatedFiles)) =>
       tasks = last.pre

RECURSIVE ReachIn(_, _, _)
\* the nodes reached from the set of nodes by at least one edge and at most
\* k more
ReachIn(edges, from, k) ==
  LET next == {e[2] : e \in {e \in edges : e[1] \in from}} IN
  IF k = 0 THEN next ELSE next \cup ReachIn(edges, next, k - 1)

OnCycle(edges, node, size) == node \in ReachIn(edges, {node}, size)

\* draft i names draft j as a dependency
DraftEdges(drafts) ==
  {e \in (1..Len(drafts)) \X (1..Len(drafts)) :
     drafts[e[2]].name \in DeclaredRefs(drafts[e[1]])}

\* the task of id e[1] depends on the task of id e[2]
TaskEdges(ts) ==
  {e \in Ids(ts) \X Ids(ts) : e[2] \in Range(Find(ts, e[1]).dependencies)}

\* the call just served is a split_tasks whose draft n is on a cycle of names
CyclicDraft(n) ==
  /\ last.op = "split_tasks"
  /\ ~last.rejected
  /\ n \in 1..Len(last.drafts)
  /\ OnCycle(DraftEdges(last.drafts), n, Len(last.drafts))

\* the batch with its cycle was stored: the task of each draft on the cycle
\* depends on the tasks of the drafts it names
CycleStored ==
  \A n \in 1..MaxBatch + 1 : CyclicDraft(n) =>
    /\ ~last.threw
    /\ \E t \in StoredFor(last.drafts[n].name) :
         \A m \in 1..Len(last.drafts) :
           (<<n, m>> \in DraftEdges(last.drafts) /\ CyclicDraft(m)) =>
             \E tm \in StoredFor(last.drafts[m].name) :
               tm.id \in Range(t.dependencies)

\* the call just served stored the task id for a draft on a cycle of names
StoredOnCycle(id) ==
  \E n \in 1..MaxBatch + 1 :
    /\ CyclicDraft(n)
    /\ \E t \in StoredFor(last.drafts[n].name) : t.id = id

\* while the task id is on a cycle of dependencies it cannot be executed
BlockedOnCycle(id) ==
  (id \in Ids(tasks) /\ OnCycle(TaskEdges(tasks), id, Len(tasks))) =>
    ~canExecuteTask(getTaskById(tasks, id), tasks).canExecute

\* C23: a batch whose drafts name each other in a cycle, a draft naming
\* itself included, is stored without error, and as long as no edge of the
\* cycle is removed canExecute is false for every task on the cycle in every
\* later state
C23_CyclesBlockForever ==
  /\ [](CycleStored)
  /\ \A id \in Range(UuidTable) : [](StoredOnCycle(id) => [](BlockedOnCycle(id)))

\* the dependencies stored on t are the resolved dependencies of draft d
HoldsDepsOf(t, d) ==
  /\ Range(t.dependencies) \subseteq ResolvedIds(tasks, d)
  /\ \A ref \in DeclaredRefs(d) :
       Resolvable(tasks, ref) =>
         \E id \in Range(t.dependencies) :
           id \in ResolvedIds(tasks, [d EXCEPT !.dependencies = Some(<<ref>>)])

\* C24: after split_tasks under any strategy, the resolved dependencies of
\* every draft that declares a dependency are stored on the task created or
\* updated for that draft, and the task of a draft that declares none keeps
\* the dependencies it had (none when it is new), whatever the other drafts
\* of the batch are
C24_DependenciesPerDraft ==
  SplitServed =>
    \A i \in 1..Len(last.drafts) :
      LET d == last.drafts[i] IN
      IF DeclaredRefs(d) # {}
      THEN /\ ~last.threw
           /\ \E t \in StoredFor(d.name) : HoldsDepsOf(t, d)
      ELSE \A t \in StoredFor(d.name) :
             t.dependencies = (IF t.id \in Ids(last.pre)
                               THEN Find(last.pre, t.id).dependencies ELSE <<>>)

\* the verify_task just served was for a stored InProgress task with a
\* score of 80 or more
VerifyQualifies ==
  /\ last.score >= 80
  /\ \E i \in 1..Len(last.pre) :
       last.pre[i].id = last.taskId /\ last.pre[i].status = IN_PROGRESS

VerifyEffect ==
  last.op = "verify_task" =>
    IF VerifyQualifies
    THEN /\ Len(tasks) = Len(last.pre)
         /\ \A i \in 1..Len(tasks) :
              IF last.pre[i].id = last.taskId
              THEN /\ tasks[i].id = last.taskId
                   /\ tasks[i].status = COMPLETED
                   /\ tasks[i].summary = last.summary
                   /\ tasks[i].completedAt # NoDate
              ELSE tasks[i] = last.pre[i]
    ELSE tasks = last.pre

\* a step that stores as Completed a task that was stored with another status
\* finds it InProgress
CompletedFromInProgress ==
  \A i \in 1..Len(tasks) : \A j \in 1..Len(tasks') :
    (/\ tasks[i].id = tasks'[j].id
     /\ tasks[i].status # COMPLETED
     /\ tasks'[j].status = COMPLETED) => tasks[i].status = IN_PROGRESS

\* C25: verify_task completes a task exactly when the task exists, is
\* InProgress and the score is 80 or more, and the stored task then has the
\* given summary and a completedAt; in every other case the stored collection
\* is unchanged. No task goes from Pending to Completed.
C25_VerifyCompletes ==
  [](VerifyEffect) /\ [][CompletedFromInProgress]_vars

\* verify_task has completed an InProgress task
C25_Witness ==
  /\ last.op = "verify_task"
  /\ VerifyQualifies
  /\ last.taskId \in Done(tasks) \ Done(last.pre)

\* the tasks that the selective batch just served had to update: the stored
\* tasks with the name of one of its drafts
NamedByDraft(t) == \E n \in 1..Len(last.drafts) : last.drafts[n].name = t.name

\* C26: selective split_tasks removes no existing task: every task id stored
\* before the call is stored after it, and the tasks that no draft names are
\* unchanged
C26_SelectiveKeepsAll ==
  (SplitServed /\ last.updateMode = "selective") =>
    \A i \in 1..Len(last.pre) :
      /\ last.pre[i].id \in Ids(tasks)
      /\ ~NamedByDraft(last.pre[i]) => Find(tasks, last.pre[i].id) = last.pre[i]

\* C27: in every state reached by split_tasks in its four modes, update_task,
\* execute_task, verify_task, delete_task and clear_all_tasks, every
\* dependency of every stored task is the id of a stored task
C27_ReferentialIntegrity ==
  \A i \in 1..Len(tasks) : Range(tasks[i].dependencies) \subseteq Ids(tasks)

\* the dependencies of the stored tasks form no cycle and name stored tasks
WellFormed ==
  /\ \A id \in Ids(tasks) : ~OnCycle(TaskEdges(tasks), id, Len(tasks))
  /\ \A i \in 1..Len(tasks) : Range(tasks[i].dependencies) \subseteq Ids(tasks)

AllCompleted == \A i \in 1..Len(tasks) : tasks[i].status = COMPLETED

\* some task that is not Completed can be executed
SomeExecutable ==
  \E i \in 1..Len(tasks) :
    /\ tasks[i].status # COMPLETED
    /\ canExecuteTask(getTaskById(tasks, tasks[i].id), tasks).canExecute

\* C28: when the dependencies form no cycle and none is dangling, some task
\* that is not Completed can be executed unless all are Completed, and an
\* agent that keeps calling execute_task and verify_task with a score of 80
\* or more sees every task Completed in the end
C28_Progress ==
  /\ []((WellFormed /\ ~AllCompleted) => SomeExecutable)
  /\ (WellFormed ~> AllCompleted)

\* a store of two tasks or more, one depending on another, has been completed
\* by the agent
C28_Witness ==
  /\ WellFormed
  /\ AllCompleted
  /\ Len(tasks) >= 2
  /\ \E i \in 1..Len(tasks) : Len(tasks[i].dependencies) > 0
  /\ last.op = "verify_task"
  /\ last.taskId \in Done(tasks) \ Done(last.pre)

\* C29: every Completed task that a successful clearAllTasks removes from the
\* stored collection is in the archive written by that clearAllTasks, also
\* when verify_task completes a task between the read of the collection and
\* the write of the empty collection
C29_ClearAllLosesNothing ==
  (/\ last.op = "clear_all_tasks"
   /\ last.success
   /\ Len(last.overwritten) > 0) =>
    /\ last.backupFile \in DOMAIN archives
    /\ \A i \in 1..Len(last.overwritten) :
         last.overwritten[i].status = COMPLETED =>
           \E k \in 1..Len(archives[last.backupFile]) :
             archives[last.backupFile][k] = last.overwritten[i]

\* a step of the handler of a read-only operation
ReadStep(p) == pc[p] # "idle" /\ pc'[p] # pc[p] /\ req[p].op \in ReadOps

\* C30: a read-only operation never changes the tasks of an existing
\* tasks.json; its only possible effect is creating an empty one when none
\* exists, also when it runs at the same time as the first mutating
\* operation on a data directory without tasks.json
C30_ReadsDoNotWrite ==
  [][\A p \in Procs :
       ReadStep(p) =>
         \/ tasks' = tasks /\ present' = present
         \/ ~present /\ present' /\ tasks' = <<>>]_vars

============================================================================
